---- MODULE Spec2Model ----
(***************************************************************************)
(* A model of skew_lattice.c (Gwyddion module "Skew Lattice"): the affine  *)
(* algebra (matrix_det, invert_matrix, mult_3matrix), the canvas and       *)
(* transform construction of skew_process, the resampler affine, preview,  *)
(* the peak search and angle measurement of the point list, and the dialog *)
(* callbacks that store the skew angles and hand the result over.         *)
(*                                                                         *)
(* gdouble values are modelled as exact rationals <<n, d>> in lowest terms *)
(* with d > 0.  A division by zero gives the IEEE results the build        *)
(* produces: <<1,0>> (+inf), <<-1,0>> (-inf), <<0,0>> (NaN).                *)
(* Angles are whole degrees; texts of the skew entries are modelled by the *)
(* number g_strtod reads from them.                                        *)
(***************************************************************************)
EXTENDS Integers, Sequences, FiniteSets, TLC

VARIABLES
    pc,              \* which step the modelled run is at
    image,           \* controls->image: the original field
    corr_image,      \* controls->corr_image: the resampled field
    Xskew, Yskew,    \* controls->args->Xskew / Yskew (degrees)
    adjX, adjY,      \* value of the GtkAdjustments skew_Xadjust / skew_Yadjust
    hskewtxt, vskewtxt, \* number held by the text of the two skew entries
    newxres, newyres,   \* controls->args->newxres / newyres
    background_fill,    \* controls->args->background_fill
    Trans, iTrans,      \* forward and inverse matrix of the last skew_process
    interp,             \* interpolation type handed to affine
    destres,            \* resolution of the destination handed to affine
    out,                \* what the last run of affine did, pixel by pixel
    fault,              \* "none", or how the last skew_process went wrong
    dfield,             \* controls->dfield: the spectrum of the original field
    corr_fft,           \* controls->corr_fft: the spectrum of corr_image
    disp_data,          \* controls->disp_data: the field on display
    image_mode,         \* controls->args->image_mode
    zoom_mode,          \* controls->args->zoom_mode
    selection,          \* controls->selection: the points selected, in order
    p,                  \* controls->p: <<x, y, z>> of the four peaks
    rpx,                \* controls->tool->rpx: the peak search radius
    angle1, angle2,     \* controls->args->angle1 / angle2
    Angle1, Angle2,     \* what the labels Angle1 / Angle2 show after the title
    output,             \* the field handed to the host, NoField before
    meta,               \* the "X Skew" / "Y Skew" metadata written with it
    origres,            \* resolution of the field a round trip started from
    hostfield           \* the data field of the host the module was run on

ViewVars == <<dfield, corr_fft, disp_data, image_mode, zoom_mode>>

PeakVars == <<selection, p, rpx, angle1, angle2, Angle1, Angle2>>

OutVars == <<output, meta, origres, hostfield>>

CanvasVars == <<newxres, newyres, background_fill, Trans, iTrans, interp,
                destres, out, fault>>

FieldVars == <<image, dfield, corr_image, corr_fft, disp_data>>

ProcessVars == <<CanvasVars, FieldVars>>

vars == <<pc, image, corr_image, Xskew, Yskew, adjX, adjY, hskewtxt, vskewtxt,
          newxres, newyres, background_fill, Trans, iTrans, interp, destres,
          out, fault, ViewVars, PeakVars, OutVars>>

----------------------------------------------------------------------------
(* Bounds of the model.                                                    *)

MaxRes == 2      \* source fields have xres, yres in 1..MaxRes

PeakRes == 5     \* spectra searched for peaks are PeakRes x PeakRes

----------------------------------------------------------------------------
(* Exact rational arithmetic standing for gdouble arithmetic.              *)

Abs(n) == IF n < 0 THEN -n ELSE n

Sgn(n) == IF n < 0 THEN -1 ELSE IF n > 0 THEN 1 ELSE 0

RECURSIVE GCD(_, _)
GCD(a, b) == IF b = 0 THEN a ELSE GCD(b, a % b)

\* n/d in lowest terms with a positive denominator, g being gcd(|n|, |d|).
Reduce(n, d, g) == IF d < 0 THEN <<(-n) \div g, (-d) \div g>> ELSE <<n \div g, d \div g>>

Q(n, d) == Reduce(n, d, GCD(Abs(n), Abs(d)))

QInt(n) == <<n, 1>>

QNaN == <<0, 0>>

IsFinite(a) == a[2] # 0

\* The arithmetic below is applied to finite values only.
QNeg(a) == <<-a[1], a[2]>>

QAddG(a, b, g) ==
    Q(a[1] * (b[2] \div g) + b[1] * (a[2] \div g), (a[2] \div g) * b[2])

QAdd(a, b) == QAddG(a, b, GCD(a[2], b[2]))

QSub(a, b) == QAdd(a, QNeg(b))

QMulG(a, b, g1, g2) ==
    Q((a[1] \div g1) * (b[1] \div g2), (a[2] \div g2) * (b[2] \div g1))

QMul(a, b) == QMulG(a, b, GCD(Abs(a[1]), b[2]), GCD(Abs(b[1]), a[2]))

\* a / b for finite a and b; b = 0 gives +inf, -inf or NaN by the sign of a.
QDiv(a, b) ==
    IF b[1] = 0 THEN <<Sgn(a[1]), 0>>
    ELSE Q(a[1] * b[2], a[2] * b[1])

QLt(a, b) == a[1] * b[2] < b[1] * a[2]

QLe(a, b) == a[1] * b[2] <= b[1] * a[2]

QHalf == <<1, 2>>

\* floor(a) as an integer.
QFloor(a) == a[1] \div a[2]

\* GWY_ROUND with the half subtracted instead of added.
GWY_ROUND_down(a) == QFloor(QSub(a, QHalf))

\* GWY_ROUND(a) == (gint)floor(a + 0.5)
GWY_ROUND(a) == QFloor(QAdd(a, QHalf))

\* C's % on gint: the remainder has the sign of the dividend.
CMod(a, b) == IF a >= 0 THEN a % b ELSE -((-a) % b)

----------------------------------------------------------------------------
(* Matrix2x3: a matrix is the tuple of the C array m[0..5]; At(m, k) is    *)
(* m[k].                                                                   *)

At(m, k) == m[k + 1]

\* matrix_det with the indices of the two products mixed up.
matrix_det_swapped(m) == QSub(QMul(At(m, 0), At(m, 1)), QMul(At(m, 2), At(m, 3)))

\* matrix_det with the cross term added instead of subtracted.
matrix_det_plus(m) == QAdd(QMul(At(m, 0), At(m, 3)), QMul(At(m, 1), At(m, 2)))

matrix_det(m) == QSub(QMul(At(m, 0), At(m, 3)), QMul(At(m, 1), At(m, 2)))

\* invert_matrix with the translation left undivided by D.
invert_matrix_unscaled(src) ==
    LET D == matrix_det(src)
    IN  << QDiv(At(src, 3), D),
           QDiv(QNeg(At(src, 1)), D),
           QDiv(QNeg(At(src, 2)), D),
           QDiv(At(src, 0), D),
           QSub(QMul(At(src, 2), At(src, 5)), QMul(At(src, 3), At(src, 4))),
           QSub(QMul(At(src, 1), At(src, 4)), QMul(At(src, 0), At(src, 5))) >>

invert_matrix(src) ==
    LET D == matrix_det(src)
    IN  << QDiv(At(src, 3), D),
           QDiv(QNeg(At(src, 1)), D),
           QDiv(QNeg(At(src, 2)), D),
           QDiv(At(src, 0), D),
           QDiv(QSub(QMul(At(src, 2), At(src, 5)), QMul(At(src, 3), At(src, 4))), D),
           QDiv(QSub(QMul(At(src, 1), At(src, 4)), QMul(At(src, 0), At(src, 5))), D) >>

\* mult_3matrix reading the array row by row: dest[0] from mat1[0], mat1[1],
\* dest[1] from mat1[2], mat1[3].
mult_3matrix_rows(mat1, mat2) ==
    << QAdd(QAdd(QMul(At(mat1, 0), mat2[1]), QMul(At(mat1, 1), mat2[2])),
            QMul(At(mat1, 4), mat2[3])),
       QAdd(QAdd(QMul(At(mat1, 2), mat2[1]), QMul(At(mat1, 3), mat2[2])),
            QMul(At(mat1, 5), mat2[3])),
       mat2[3] >>

\* dest = mat1 applied to the homogeneous point mat2 = <<x, y, w>>.
mult_3matrix(mat1, mat2) ==
    << QAdd(QAdd(QMul(At(mat1, 0), mat2[1]), QMul(At(mat1, 2), mat2[2])),
            QMul(At(mat1, 4), mat2[3])),
       QAdd(QAdd(QMul(At(mat1, 1), mat2[1]), QMul(At(mat1, 3), mat2[2])),
            QMul(At(mat1, 5), mat2[3])),
       mat2[3] >>

MatFinite(m) == \A k \in 1..6 : IsFinite(m[k])

\* tan(deg2rad(deg)) on the angles of the model, as a rational close to the
\* real value; tan(15) * tan(75) = 1 as it is in the build's doubles.
TanDeg(deg) ==
    LET t == CASE Abs(deg) = 0  -> <<0, 1>>
               [] Abs(deg) = 15 -> <<15, 56>>
               [] Abs(deg) = 30 -> <<4, 7>>
               [] Abs(deg) = 75 -> <<56, 15>>
    IN  IF deg < 0 THEN QNeg(t) ELSE t

----------------------------------------------------------------------------
(* Data fields: [xres, yres, data], data[row*xres + col] as in the C       *)
(* array, samples rational.                                                *)

Field(xres, yres, data) == [xres |-> xres, yres |-> yres, data |-> data]

QMin(a, b) == IF QLt(b, a) THEN b ELSE a

QMax(a, b) == IF QLt(a, b) THEN b ELSE a

\* The least and the greatest of acc and the values f[lo..hi].
RECURSIVE MinOver(_, _, _, _)
MinOver(f, lo, hi, acc) ==
    IF lo > hi THEN acc ELSE MinOver(f, lo + 1, hi, QMin(acc, f[lo]))

RECURSIVE MaxOver(_, _, _, _)
MaxOver(f, lo, hi, acc) ==
    IF lo > hi THEN acc ELSE MaxOver(f, lo + 1, hi, QMax(acc, f[lo]))

\* gwy_data_field_get_min_max
FieldMin(f) == MinOver(f.data, 1, f.xres * f.yres - 1, f.data[0])

FieldMax(f) == MaxOver(f.data, 1, f.xres * f.yres - 1, f.data[0])

----------------------------------------------------------------------------
(* The resampler affine().                                                 *)

\* gwy_interpolation_get_support_size for the two kernels of the model.
suplen(ip) == IF ip = "BILINEAR" THEN 2 ELSE 4

sf(ip) == -((suplen(ip) - 1) \div 2)

st(ip) == suplen(ip) \div 2

\* w[0..3] of Key's cubic convolution for the offset x, xx = x*x.
KeyWeights(x, xx) ==
    << QMul(QAdd(<<-1, 2>>, QMul(QSub(QInt(1), QMul(QHalf, x)), x)), x),
       QAdd(QInt(1), QMul(QAdd(<<-5, 2>>, QMul(<<3, 2>>, x)), xx)),
       QMul(QAdd(QHalf, QMul(QSub(QInt(2), QMul(<<3, 2>>, x)), x)), x),
       QMul(QAdd(<<-1, 2>>, QMul(QHalf, x)), xx) >>

\* gwy_interpolation_get_weights: the weights of the support points for the
\* fractional offset x (linear, and Key's cubic convolution).
Weights(x, ip) ==
    IF ip = "BILINEAR" THEN << QSub(QInt(1), x), x >> ELSE KeyWeights(x, QMul(x, x))

\* The sum of the terms t[1..n].
RECURSIVE QSum(_, _)
QSum(t, n) == IF n = 0 THEN QInt(0) ELSE QAdd(QSum(t, n - 1), t[n])

\* affine_bx without the "- 1.0" of the half-pixel shift.
affine_bx_nominus(invtrans) ==
    QAdd(At(invtrans, 4), QMul(QHalf, QAdd(At(invtrans, 0), At(invtrans, 1))))

\* bx += 0.5*(axx + axy - 1.0); by += 0.5*(ayx + ayy - 1.0)
affine_bx(invtrans) ==
    QAdd(At(invtrans, 4),
         QMul(QHalf, QSub(QAdd(At(invtrans, 0), At(invtrans, 1)), QInt(1))))

affine_by(invtrans) ==
    QAdd(At(invtrans, 5),
         QMul(QHalf, QSub(QAdd(At(invtrans, 2), At(invtrans, 3)), QInt(1))))

\* x = axx*newi + ayx*newj + bx
affine_x(invtrans, newi, newj) ==
    QAdd(QAdd(QMul(At(invtrans, 0), QInt(newi)), QMul(At(invtrans, 2), QInt(newj))),
         affine_bx(invtrans))

\* y = axy*newi + ayy*newj + by
affine_y(invtrans, newi, newj) ==
    QAdd(QAdd(QMul(At(invtrans, 1), QInt(newi)), QMul(At(invtrans, 3), QInt(newj))),
         affine_by(invtrans))

\* OutOfDomain with the test on x dropped.
OutOfDomain_yonly(x, y, xres, yres) ==
    \/ QLt(QInt(yres), y)
    \/ QLt(y, QInt(0))

\* if (y > yres || x > xres || y < 0.0 || x < 0.0)
OutOfDomain(x, y, xres, yres) ==
    \/ QLt(QInt(yres), y)
    \/ QLt(QInt(xres), x)
    \/ QLt(y, QInt(0))
    \/ QLt(x, QInt(0))

\* FoldIndex clamping to the last index instead of mirroring.
FoldIndex_clamped(old, i, stv, res) ==
    LET m == CMod(old + i + 2 * stv * res, 2 * res)
    IN  IF m >= res THEN res - 1 ELSE m

\* ii = (oldi + i + 2*st*yres) % (2*yres); if (ii >= yres) ii = 2*yres-1 - ii
FoldIndex(old, i, stv, res) ==
    LET m == CMod(old + i + 2 * stv * res, 2 * res)
    IN  IF m >= res THEN 2 * res - 1 - m ELSE m

\* The samples gathered for support row r: coeff[(r-1)*suplen + c-1] =
\* cdata[ii*xres + jj], weighted by wx and summed, as in
\* gwy_interpolation_interpolate_2d.
InterpRow(source, ip, oldi, oldj, wx, r) ==
    QSum([c \in 1..suplen(ip) |->
            QMul(wx[c],
                 source.data[FoldIndex(oldi, r - 1 + sf(ip), st(ip), source.yres)
                                * source.xres
                             + FoldIndex(oldj, c - 1 + sf(ip), st(ip), source.xres)])],
         suplen(ip))

\* v = gwy_interpolation_interpolate_2d(x, y, suplen, coeff, interp)
Interpolate2d(source, ip, oldi, oldj, wx, wy) ==
    QSum([r \in 1..suplen(ip) |->
            QMul(wy[r], InterpRow(source, ip, oldi, oldj, wx, r))],
         suplen(ip))

\* The unfolded and folded indices read on both axes around <<oldj, oldi>>.
ReadsAt(source, ip, oldi, oldj) ==
    {[axis |-> "row", k |-> oldi + i, res |-> source.yres,
      idx |-> FoldIndex(oldi, i, st(ip), source.yres)] : i \in sf(ip)..st(ip)}
    \cup
    {[axis |-> "col", k |-> oldj + j, res |-> source.xres,
      idx |-> FoldIndex(oldj, j, st(ip), source.xres)] : j \in sf(ip)..st(ip)}

\* The branch if (!vset): oldi = floor(y), y -= oldi, oldj = floor(x),
\* x -= oldj, then the gathering and the interpolation.
InDomainPixel(source, ip, x, y, oldi, oldj) ==
    [ x |-> x, y |-> y, filled |-> FALSE,
      v |-> Interpolate2d(source, ip, oldi, oldj,
                          Weights(QSub(x, QInt(oldj)), ip),
                          Weights(QSub(y, QInt(oldi)), ip)),
      reads |-> ReadsAt(source, ip, oldi, oldj) ]

\* The body of the two loops for the source coordinate <<x, y>>.
PixelAt(source, ip, fill_value, x, y) ==
    IF OutOfDomain(x, y, source.xres, source.yres)
    THEN [ x |-> x, y |-> y, filled |-> TRUE, v |-> fill_value, reads |-> {} ]
    ELSE InDomainPixel(source, ip, x, y, QFloor(y), QFloor(x))

\* One pass of the body of the two loops over the destination.
AffinePixel(source, invtrans, ip, fill_value, newi, newj) ==
    PixelAt(source, ip, fill_value,
            affine_x(invtrans, newi, newj), affine_y(invtrans, newi, newj))

\* affine(source, dest, invtrans, interp, fill_value) for a destination of
\* newxres x newyres: the samples written, data[newi + newxres*newj], and for
\* every destination pixel what the loop body did.
AffineResult(nxres, nyres, px, bx, by) ==
    [ xres |-> nxres, yres |-> nyres,
      data |-> [k \in DOMAIN px |-> px[k].v],
      px |-> px, bx |-> bx, by |-> by ]

affine(source, nxres, nyres, invtrans, ip, fill_value) ==
    AffineResult(nxres, nyres,
                 [k \in 0..(nxres * nyres - 1) |->
                    AffinePixel(source, invtrans, ip, fill_value,
                                k % nxres, k \div nxres)],
                 affine_bx(invtrans), affine_by(invtrans))

----------------------------------------------------------------------------
(* Spectra, gwy_data_field_resample and preview().                         *)

\* A spectrum of resolution xres x yres.  The samples of a spectrum are not
\* modelled: data is empty.
Spectrum(xres, yres) == [xres |-> xres, yres |-> yres, data |-> <<>>]

\* perform_fft(f, ...): the modulus spectrum of f, of the resolution of f.
perform_fft(f) == Spectrum(f.xres, f.yres)

\* The field whose samples are all v.
FilledField(xres, yres, v) ==
    Field(xres, yres, [k \in 0..(xres * yres - 1) |-> v])

HasNaN(f) == \E k \in DOMAIN f.data : ~IsFinite(f.data[k])

\* The old coordinate of the centre of new pixel k on an axis resampled
\* from old to new pixels: (k + 0.5)*old/new - 0.5.
ResampleCoord(k, old, new) == Q((2 * k + 1) * old - new, 2 * new)

\* The bilinear sample of f at <<x, y>>, oldi = floor(y), oldj = floor(x),
\* the neighbours beyond the edge mirrored.
ResamplePixel(f, x, y, oldi, oldj) ==
    Interpolate2d(f, "BILINEAR", oldi, oldj,
                  Weights(QSub(x, QInt(oldj)), "BILINEAR"),
                  Weights(QSub(y, QInt(oldi)), "BILINEAR"))

ResampleAt(f, x, y) == ResamplePixel(f, x, y, QFloor(y), QFloor(x))

\* gwy_data_field_resample(f, xres, yres, GWY_INTERPOLATION_BILINEAR): f in
\* place at the new resolution; nothing is done when the resolution is the
\* one f has.  A spectrum whose samples are not modelled stays one.
gwy_data_field_resample(f, xres, yres) ==
    IF f.xres = xres /\ f.yres = yres THEN f
    ELSE IF DOMAIN f.data = {} THEN Spectrum(xres, yres)
    ELSE IF HasNaN(f) THEN FilledField(xres, yres, QNaN)
    ELSE Field(xres, yres,
               [k \in 0..(xres * yres - 1) |->
                  ResampleAt(f, ResampleCoord(k % xres, f.xres, xres),
                                ResampleCoord(k \div xres, f.yres, yres))])

\* gwy_data_field_area_extract(f, col, row, width, height)
gwy_data_field_area_extract(f, col, row, width, height) ==
    Field(width, height,
          [k \in 0..(width * height - 1) |->
             f.data[(row + (k \div width)) * f.xres + col + (k % width)]])

\* n | 1 on a non-negative n.
OrOne(n) == IF n % 2 = 0 THEN n + 1 ELSE n

SpectrumModes == {"FFT", "FFT_CORRECTED"}

\* The switch of preview: the field of the display mode is resampled in
\* place to the resolution Xres x Yres of disp_data.  fs holds the fields
\* image, dfield, corr_image, corr_fft and disp_data.
PreviewSwitch(fs, mode, Xres, Yres) ==
    [ image      |-> IF mode = "DATA"
                     THEN gwy_data_field_resample(fs.image, Xres, Yres)
                     ELSE fs.image,
      dfield     |-> IF mode = "FFT"
                     THEN gwy_data_field_resample(fs.dfield, Xres, Yres)
                     ELSE fs.dfield,
      corr_image |-> IF mode = "CORRECTED"
                     THEN gwy_data_field_resample(fs.corr_image, Xres, Yres)
                     ELSE fs.corr_image,
      corr_fft   |-> IF mode = "FFT_CORRECTED"
                     THEN gwy_data_field_resample(fs.corr_fft, Xres, Yres)
                     ELSE fs.corr_fft,
      disp_data  |-> fs.disp_data ]

\* gwy_data_field_copy(<the field of the mode>, disp_data, TRUE)
PreviewCopy(fs, mode) ==
    CASE mode = "DATA"          -> fs.image
      [] mode = "FFT"           -> fs.dfield
      [] mode = "CORRECTED"     -> fs.corr_image
      [] mode = "FFT_CORRECTED" -> fs.corr_fft

\* if (zoom != ZOOM_1): the centre of disp_data, of odd width and height,
\* resampled back to Xres x Yres.
PreviewZoomArea(shown, Xres, Yres, width, height) ==
    gwy_data_field_resample(
        gwy_data_field_area_extract(shown, (Xres - width) \div 2,
                                    (Yres - height) \div 2, width, height),
        Xres, Yres)

PreviewZoom(shown, mode, zoom, Xres, Yres) ==
    IF zoom = 1 \/ mode \in SpectrumModes \/ HasNaN(shown) THEN shown
    ELSE PreviewZoomArea(shown, Xres, Yres,
                         OrOne(Xres \div zoom), OrOne(Yres \div zoom))

PreviewShow(after, mode, zoom, Xres, Yres) ==
    [after EXCEPT !.disp_data =
        PreviewZoom(PreviewCopy(after, mode), mode, zoom, Xres, Yres)]

\* preview taking Xres and Yres from corr_image instead of disp_data.
preview_canvas(fs, mode, zoom) ==
    PreviewShow(PreviewSwitch(fs, mode, fs.corr_image.xres, fs.corr_image.yres),
                mode, zoom, fs.corr_image.xres, fs.corr_image.yres)

\* preview(controls) on the fields fs: the fields it leaves.  threshold_do
\* clamps disp_data to [lower, upper]; the range is taken to hold every
\* sample, so the clamp changes none.
preview(fs, mode, zoom) ==
    PreviewShow(PreviewSwitch(fs, mode, fs.disp_data.xres, fs.disp_data.yres),
                mode, zoom, fs.disp_data.xres, fs.disp_data.yres)

\* The fields as the state holds them.
Fields ==
    [ image |-> image, dfield |-> dfield, corr_image |-> corr_image,
      corr_fft |-> corr_fft, disp_data |-> disp_data ]

\* The fields fs become the state.
StoreFields(fs) ==
    /\ image' = fs.image
    /\ dfield' = fs.dfield
    /\ corr_image' = fs.corr_image
    /\ corr_fft' = fs.corr_fft
    /\ disp_data' = fs.disp_data

----------------------------------------------------------------------------
(* skew_process(): canvas, forward and inverse matrix, resampling.         *)

\* ShearTrans with the two tangents in each other's place.
ShearTrans_swapped(xs, ys, t4, t5) ==
    << QInt(1), TanDeg(xs), TanDeg(ys), QInt(1), t4, t5 >>

\* Trans[0..5] as skew_process fills it: Trans[1] = tan(vAngle),
\* Trans[2] = tan(hAngle), hAngle from Xskew and vAngle from Yskew.
ShearTrans(xs, ys, t4, t5) ==
    << QInt(1), TanDeg(ys), TanDeg(xs), QInt(1), t4, t5 >>

\* The four corners <<cornX[i], cornY[i]>> of the original rectangle.
Corners(img) ==
    << <<0, 0>>, <<img.xres, 0>>, <<img.xres, img.yres>>, <<0, img.yres>> >>

\* <<TcornX[i], TcornY[i]>>: corner i through Trans with no translation.
Tcorn(img, xs, ys, i) ==
    mult_3matrix(ShearTrans(xs, ys, QInt(0), QInt(0)),
                 << QInt(Corners(img)[i][1]), QInt(Corners(img)[i][2]), QInt(1) >>)

Tcorns(img, xs, ys) == [i \in 1..4 |-> Tcorn(img, xs, ys, i)]

\* TcornX (axis = 1) or TcornY (axis = 2) of the transformed corners tc.
TcornAxis(tc, axis) == [i \in 1..4 |-> tc[i][axis]]

\* [lowX, highX, lowY, highY]: each starts at corner 0 and the loop
\* for (i = 1; i < 4; i++) keeps the least or the greatest coordinate.
BBoxOf(tc) ==
    [ lowX  |-> MinOver(TcornAxis(tc, 1), 2, 4, tc[1][1]),
      highX |-> MaxOver(TcornAxis(tc, 1), 2, 4, tc[1][1]),
      lowY  |-> MinOver(TcornAxis(tc, 2), 2, 4, tc[1][2]),
      highY |-> MaxOver(TcornAxis(tc, 2), 2, 4, tc[1][2]) ]

BBox(img, xs, ys) == BBoxOf(Tcorns(img, xs, ys))

\* CanvasXresOf taking highX alone for the width.
CanvasXresOf_high(bb) == GWY_ROUND(bb.highX)

\* xres = GWY_ROUND(highX - lowX); yres = GWY_ROUND(highY - lowY)
CanvasXresOf(bb) == GWY_ROUND(QSub(bb.highX, bb.lowX))

CanvasYresOf(bb) == GWY_ROUND(QSub(bb.highY, bb.lowY))

CanvasXres(img, xs, ys) == CanvasXresOf(BBox(img, xs, ys))

CanvasYres(img, xs, ys) == CanvasYresOf(BBox(img, xs, ys))

\* ForwardTransOf with Trans[4] = lowX, Trans[5] = lowY.
ForwardTransOf_plus(xs, ys, bb) == ShearTrans(xs, ys, bb.lowX, bb.lowY)

\* The forward matrix handed to invert_matrix: Trans[4] = -lowX, Trans[5] = -lowY.
ForwardTransOf(xs, ys, bb) == ShearTrans(xs, ys, QNeg(bb.lowX), QNeg(bb.lowY))

ForwardTrans(img, xs, ys) == ForwardTransOf(xs, ys, BBox(img, xs, ys))

\* FillOf with the twentieth of the range added to min.
FillOf_plus(min, max) == QAdd(min, QMul(<<1, 20>>, QSub(max, min)))

\* background_fill = min - 0.05 * (max - min)
FillOf(min, max) == QSub(min, QMul(<<1, 20>>, QSub(max, min)))

BackgroundFill(img) == FillOf(FieldMin(img), FieldMax(img))

\* What affine leaves when it is not run in the model (nothing resampled).
NoOut == [xres |-> 0, yres |-> 0, data |-> <<>>, px |-> <<>>,
          bx |-> QInt(0), by |-> QInt(0)]

\* Everything skew_process computes from the original field img and the
\* stored angles xs, ys.  With a singular forward matrix invert_matrix
\* divides by D = 0: iTrans is not finite, every source coordinate in affine
\* is NaN, no pixel takes the fill branch, (gint)floor(NaN) is undefined and
\* the source is read out of bounds; affine is then left to the action.
ProcessResample(img, T, iT, nx, ny, bg) ==
    [ Trans |-> T, iTrans |-> iT, newxres |-> nx, newyres |-> ny,
      background_fill |-> bg,
      out |-> IF MatFinite(iT) THEN affine(img, nx, ny, iT, "BILINEAR", bg)
              ELSE NoOut ]

ProcessCanvas(img, xs, ys, bb, bg) ==
    ProcessResample(img, ForwardTransOf(xs, ys, bb),
                    invert_matrix(ForwardTransOf(xs, ys, bb)),
                    CanvasXresOf(bb), CanvasYresOf(bb), bg)

ProcessResult(img, xs, ys) ==
    ProcessCanvas(img, xs, ys, BBox(img, xs, ys), BackgroundFill(img))

\* The assignments of skew_process to the arguments and to what the model
\* records of the run, r being what it computed.  Where the inverse is not
\* finite the run either crashes or leaves a field of NaN samples.
StoreCanvas(r) ==
    /\ background_fill' = r.background_fill
    /\ newxres' = r.newxres
    /\ newyres' = r.newyres
    /\ Trans' = r.Trans
    /\ iTrans' = r.iTrans
    /\ interp' = "BILINEAR"
    /\ destres' = <<r.newxres, r.newyres>>
    /\ out' = r.out
    /\ IF MatFinite(r.iTrans) THEN fault' = "none"
       ELSE fault' \in {"crash", "nan"}

\* controls->corr_image as skew_process leaves it.
ProcessedImage(r) ==
    IF MatFinite(r.iTrans) THEN Field(r.newxres, r.newyres, r.out.data)
    ELSE FilledField(r.newxres, r.newyres, QNaN)

\* The fields fs after skew_process: corr_image is the new canvas and
\* corr_fft the spectrum of a duplicate of it.
ProcessedFields(fs, r) ==
    [fs EXCEPT !.corr_image = ProcessedImage(r),
               !.corr_fft = perform_fft(ProcessedImage(r))]

StoreProcess(r) ==
    /\ StoreCanvas(r)
    /\ corr_image' = ProcessedImage(r)
    /\ corr_fft' = perform_fft(ProcessedImage(r))

\* skew_process(controls) run with args->Xskew = xs, args->Yskew = ys.
skew_process(xs, ys) == StoreProcess(ProcessResult(image, xs, ys))

----------------------------------------------------------------------------
(* Inputs of the model.                                                    *)

\* Sample k of the test fields: a ramp of distinct values, and a flat field.
SampleAt(pat, k) == IF pat = "ramp" THEN QInt(k) ELSE QInt(1)

Patterns == {"ramp", "flat"}

Images ==
    { Field(w, h, [k \in 0..(w * h - 1) |-> SampleAt(pat, k)]) :
        w \in 1..MaxRes, h \in 1..MaxRes, pat \in Patterns }

\* Skew angles in degrees: the slider's range [-30, 30] and, beyond it,
\* values only the text entries can hold.
ValidAngles == {-30, -15, 0, 15, 30}

Angles == ValidAngles \cup {-75, 75}

Identity == << QInt(1), QInt(0), QInt(0), QInt(1), QInt(0), QInt(0) >>

\* Values of the variables a specification does not use.
Idle ==
    /\ adjX = 0 /\ adjY = 0 /\ hskewtxt = 0 /\ vskewtxt = 0
    /\ newxres = 0 /\ newyres = 0 /\ background_fill = QInt(0)
    /\ out = NoOut /\ fault = "none"

\* No point selected, no angle measured, the labels showing their titles.
NoPoint == << QInt(0), QInt(0), QInt(0) >>

NoAngle == [nan |-> FALSE, sgn |-> 1, cos2 |-> QInt(1)]

IdlePeaks ==
    /\ selection = <<>>
    /\ p = [k \in 0..3 |-> NoPoint]
    /\ rpx = 3
    /\ angle1 = NoAngle /\ angle2 = NoAngle
    /\ Angle1 = [text |-> "", angle |-> NoAngle]
    /\ Angle2 = [text |-> "", angle |-> NoAngle]

\* The display as skew_lattice_dialog sets it up for the field f: both
\* spectra, an empty disp_data alike f, and the default modes.
IdleView(f) ==
    /\ dfield = perform_fft(f)
    /\ corr_fft = perform_fft(f)
    /\ disp_data = FilledField(f.xres, f.yres, QInt(0))
    /\ image_mode = "FFT_CORRECTED"
    /\ zoom_mode = 1

\* Nothing handed to the host yet: no field and no metadata.
NoField == [xres |-> 0, yres |-> 0, data |-> <<>>]

NoMeta == <<>>

IdleOut(f) ==
    /\ output = NoField
    /\ meta = NoMeta
    /\ origres = <<f.xres, f.yres>>
    /\ hostfield = f

----------------------------------------------------------------------------
(* SpecProcess: skew_process as a function of the original field and the   *)
(* two stored angles.                                                      *)

InitProcess ==
    /\ pc = "input"
    /\ image \in Images
    /\ corr_image = image
    /\ Xskew \in Angles /\ Yskew \in Angles
    /\ Trans = Identity /\ iTrans = Identity
    /\ interp = "BILINEAR" /\ destres = <<image.xres, image.yres>>
    /\ Idle
    /\ IdlePeaks /\ IdleView(image) /\ IdleOut(image)

Process ==
    /\ pc = "input"
    /\ skew_process(Xskew, Yskew)
    /\ pc' = "done"
    /\ UNCHANGED <<image, Xskew, Yskew, adjX, adjY, hskewtxt, vskewtxt>>
    /\ UNCHANGED <<dfield, disp_data, image_mode, zoom_mode, PeakVars, OutVars>>

NextProcess == Process

SpecProcess == InitProcess /\ [][NextProcess]_vars

----------------------------------------------------------------------------
(* SpecRoundTrip: the module run on a field, and run again on the field    *)
(* it handed over, with the negated angles.                                *)

\* The fields of the round trip are flat: the claim is about resolutions,
\* and resampling a resampled ramp twice leaves the range of the exact
\* sample arithmetic.
RoundTripImages ==
    { Field(w, h, [k \in 0..(w * h - 1) |-> SampleAt("flat", k)]) :
        w \in 1..MaxRes, h \in 1..MaxRes }

InitRoundTrip ==
    /\ pc = "input"
    /\ image \in RoundTripImages
    /\ corr_image = image
    /\ Xskew \in ValidAngles /\ Yskew \in ValidAngles
    /\ Trans = Identity /\ iTrans = Identity
    /\ interp = "BILINEAR" /\ destres = <<image.xres, image.yres>>
    /\ Idle
    /\ IdlePeaks /\ IdleView(image) /\ IdleOut(image)

RoundTripFrame == <<adjX, adjY, hskewtxt, vskewtxt, dfield, disp_data,
                    image_mode, zoom_mode, PeakVars, OutVars>>

\* skew_process on the original field with the angles <<Xskew, Yskew>>.
Forward ==
    /\ pc = "input"
    /\ skew_process(Xskew, Yskew)
    /\ pc' = "skewed"
    /\ UNCHANGED <<image, Xskew, Yskew, RoundTripFrame>>

\* skew_process on the field the first run produced, which is now
\* controls->image, with the angles <<-Xskew, -Yskew>>.
Backward ==
    /\ pc = "skewed"
    /\ image' = corr_image
    /\ Xskew' = -Xskew
    /\ Yskew' = -Yskew
    /\ StoreProcess(ProcessResult(corr_image, -Xskew, -Yskew))
    /\ pc' = "restored"
    /\ UNCHANGED RoundTripFrame

NextRoundTrip == Forward \/ Backward

SpecRoundTrip == InitRoundTrip /\ [][NextRoundTrip]_vars

----------------------------------------------------------------------------
(* SpecAffine: affine as a function of its arguments, on inverse maps that *)
(* need not come from skew_process.                                        *)

\* Linear parts <<axx, axy, ayx, ayy>>: the identity, the two one-sided
\* shears, a symmetric shear and a non-symmetric one.
LinearParts ==
    { << QInt(1), QInt(0), QInt(0), QInt(1) >>,
      << QInt(1), QHalf,   QInt(0), QInt(1) >>,
      << QInt(1), QInt(0), QHalf,   QInt(1) >>,
      << QInt(1), QHalf,   QHalf,   QInt(1) >>,
      << QInt(1), <<-1, 2>>, QHalf, QInt(1) >> }

\* Translations: whole pixels from -1 to one past the largest resolution.
Shifts == { QInt(n) : n \in -1..(MaxRes + 1) }

Maps == { << l[1], l[2], l[3], l[4], tx, ty >> :
            l \in LinearParts, tx \in Shifts, ty \in Shifts }

Interps == {"BILINEAR", "KEY"}

InitAffine ==
    /\ pc = "input"
    /\ image \in Images
    /\ corr_image = image
    /\ iTrans \in Maps
    /\ interp \in Interps
    /\ destres = <<image.xres, image.yres>>
    /\ Xskew = 0 /\ Yskew = 0
    /\ Trans = Identity
    /\ adjX = 0 /\ adjY = 0 /\ hskewtxt = 0 /\ vskewtxt = 0
    /\ newxres = 0 /\ newyres = 0
    /\ background_fill = BackgroundFill(image)
    /\ out = NoOut /\ fault = "none"
    /\ IdlePeaks /\ IdleView(image) /\ IdleOut(image)

RunAffine ==
    /\ pc = "input"
    /\ LET a == affine(image, destres[1], destres[2], iTrans, interp,
                       background_fill)
       IN  /\ corr_image' = Field(destres[1], destres[2], a.data)
           /\ out' = a
    /\ pc' = "done"
    /\ UNCHANGED <<image, Xskew, Yskew, adjX, adjY, hskewtxt, vskewtxt,
                   newxres, newyres, background_fill, Trans, iTrans, interp,
                   destres, fault, ViewVars, PeakVars, OutVars>>

NextAffine == RunAffine

SpecAffine == InitAffine /\ [][NextAffine]_vars

----------------------------------------------------------------------------
(* Claims about the matrix algebra and skew_process (SpecProcess).         *)

InValidDomain == Xskew \in ValidAngles /\ Yskew \in ValidAngles

\* Points <<x, y, 1>> on and around the original rectangle.
TestPoints ==
    { << QInt(x), QInt(y), QInt(1) >> : x \in -1..(MaxRes + 1), y \in -1..(MaxRes + 1) }

\* C1: for every skew pair of the valid domain [-30,30]^2 and every
\* translation skew_process sets, the matrix invert_matrix returns for the
\* forward matrix undoes it: forward, then inverse, applied through
\* mult_3matrix to any point (x,y,1) gives (x,y,1) back.
C1_InverseComposesToIdentity ==
    (pc = "done" /\ InValidDomain) =>
        \A pt \in TestPoints : mult_3matrix(iTrans, mult_3matrix(Trans, pt)) = pt

C1_Witness ==
    /\ pc = "done" /\ Xskew = 30 /\ Yskew = -15
    /\ At(Trans, 5) # QInt(0)
    /\ mult_3matrix(Trans, << QInt(1), QInt(1), QInt(1) >>) # << QInt(1), QInt(1), QInt(1) >>

\* C2 as stated: the shear matrix built from any angles in (-90,90) has
\* determinant exactly 1.
C2_DeterminantIsOne == (pc = "done") => matrix_det(Trans) = QInt(1)

\* C2 as amended: the determinant of the shear matrix is
\* 1 - tan(Xskew)*tan(Yskew); it is 1 when one of the two angles is 0, and
\* it is 0 where the two tangents multiply to 1 (Xskew = 75, Yskew = 15).
C2_DeterminantFormula ==
    (pc = "done") =>
        /\ matrix_det(Trans) = QSub(QInt(1), QMul(TanDeg(Xskew), TanDeg(Yskew)))
        /\ (Xskew = 0 \/ Yskew = 0) => matrix_det(Trans) = QInt(1)
        /\ (Xskew = 75 /\ Yskew = 15) => matrix_det(Trans) = QInt(0)

C2_Witness ==
    pc = "done" /\ Xskew = 30 /\ Yskew = 30 /\ matrix_det(Trans) = <<33, 49>>

\* C4: for every skew pair of the valid domain [-30,30]^2 the forward matrix
\* of skew_process is non-singular, so invert_matrix divides by a non-zero
\* determinant and the inverse is finite.
C4_NonSingularOnValidDomain ==
    (pc = "done" /\ InValidDomain) =>
        /\ matrix_det(Trans) # QInt(0)
        /\ MatFinite(iTrans)
        /\ fault = "none"

C4_Witness ==
    pc = "done" /\ Xskew = 30 /\ Yskew = 30 /\ MatFinite(iTrans)

\* C5 as stated: when the forward matrix is singular the inversion and
\* resampling path fails fast: an error is reported, nothing is divided by
\* the determinant and no resampled field is produced.
C5_SingularFailsFast ==
    (pc = "done" /\ matrix_det(Trans) = QInt(0)) =>
        /\ fault = "singular"
        /\ MatFinite(iTrans)
        /\ corr_image = image

\* C6: for Xskew = Yskew = 0 the forward and inverse maps are the identity,
\* the canvas has the original resolution, and the resampled field equals
\* the original sample for sample with no pixel taking the fill branch.
C6_ZeroSkewIsIdentity ==
    (pc = "done" /\ Xskew = 0 /\ Yskew = 0) =>
        /\ Trans = Identity
        /\ iTrans = Identity
        /\ newxres = image.xres /\ newyres = image.yres
        /\ corr_image = image
        /\ \A k \in DOMAIN out.px : ~out.px[k].filled

C6_Witness ==
    /\ pc = "done" /\ Xskew = 0 /\ Yskew = 0
    /\ image.xres = 2 /\ image.yres = 2 /\ image.data[3] = QInt(3)
    /\ corr_image.data[3] = QInt(3)

ShearedPoint(tx, ty, T, pt) ==
    << QAdd(QAdd(pt[1], QMul(tx, pt[2])), At(T, 4)),
       QAdd(QAdd(pt[2], QMul(ty, pt[1])), At(T, 5)),
       QInt(1) >>

\* GWY_ROUND(a + |tan(deg)|*b): the side of the canvas of an a x b
\* rectangle sheared along a by the angle deg.
ShearedSide(a, b, deg) ==
    GWY_ROUND(QAdd(QInt(a), QMul(TanDeg(Abs(deg)), QInt(b))))

\* C21 as stated: the forward matrix maps <<x, y>> to
\* <<x + tan(Yskew)*y, y + tan(Xskew)*x>> (up to its translation), so the
\* canvas width grows with |Yskew| and the canvas height with |Xskew|.
C21_ShearCrossCoupled ==
    (pc = "done") =>
        /\ \A pt \in TestPoints :
              mult_3matrix(Trans, pt) =
                  ShearedPoint(TanDeg(Yskew), TanDeg(Xskew), Trans, pt)
        /\ newxres = ShearedSide(image.xres, image.yres, Yskew)
        /\ newyres = ShearedSide(image.yres, image.xres, Xskew)

\* C21 as amended: the forward matrix maps <<x, y>> to
\* <<x + tan(Xskew)*y, y + tan(Yskew)*x>> (up to its translation): the
\* x-shear is driven by the horizontal angle Xskew and the y-shear by the
\* vertical angle Yskew, so the canvas width is GWY_ROUND(W + |tan(Xskew)|*H)
\* and the canvas height GWY_ROUND(H + |tan(Yskew)|*W).
C21_ShearByOwnAngle ==
    (pc = "done") =>
        /\ \A pt \in TestPoints :
              mult_3matrix(Trans, pt) =
                  ShearedPoint(TanDeg(Xskew), TanDeg(Yskew), Trans, pt)
        /\ newxres = ShearedSide(image.xres, image.yres, Xskew)
        /\ newyres = ShearedSide(image.yres, image.xres, Yskew)

\* C21 witness: a 2 x 2 field sheared by Xskew = 30 alone is widened to 3
\* columns, keeps its 2 rows, and the point <<0, 1>> moves along x.
C21_Witness ==
    /\ pc = "done" /\ Xskew = 30 /\ Yskew = 0
    /\ image.xres = 2 /\ image.yres = 2
    /\ newxres = 3 /\ newyres = 2
    /\ mult_3matrix(Trans, << QInt(0), QInt(1), QInt(1) >>)
           = << <<4, 7>>, QInt(1), QInt(1) >>

\* The four corners of the original rectangle through the matrix T.
CornersThrough(T, img) ==
    [i \in 1..4 |->
        mult_3matrix(T, << QInt(Corners(img)[i][1]), QInt(Corners(img)[i][2]),
                           QInt(1) >>)]

\* The points <<x, y, 1>> of the original rectangle with whole coordinates.
RectanglePoints(img) ==
    { << QInt(x), QInt(y), QInt(1) >> : x \in 0..img.xres, y \in 0..img.yres }

\* The width and the height of the bounding box of the sheared rectangle.
BBoxWidth(img, xs) ==
    QAdd(QInt(img.xres), QMul(TanDeg(Abs(xs)), QInt(img.yres)))

BBoxHeight(img, ys) ==
    QAdd(QInt(img.yres), QMul(TanDeg(Abs(ys)), QInt(img.xres)))

\* C22: the forward matrix of skew_process, with its translation
\* <<-lowX, -lowY>>, maps the four corners of the original W x H rectangle
\* to points whose least x and least y are exactly 0 and whose greatest x
\* and y are the width and the height of the bounding box; every point of
\* the original rectangle maps into [0, bboxW] x [0, bboxH].
C22_CornersSpanTheBox ==
    (pc = "done") =>
        /\ MinOver(TcornAxis(CornersThrough(Trans, image), 1), 1, 4,
                   CornersThrough(Trans, image)[1][1]) = QInt(0)
        /\ MinOver(TcornAxis(CornersThrough(Trans, image), 2), 1, 4,
                   CornersThrough(Trans, image)[1][2]) = QInt(0)
        /\ MaxOver(TcornAxis(CornersThrough(Trans, image), 1), 1, 4,
                   CornersThrough(Trans, image)[1][1]) = BBoxWidth(image, Xskew)
        /\ MaxOver(TcornAxis(CornersThrough(Trans, image), 2), 1, 4,
                   CornersThrough(Trans, image)[1][2]) = BBoxHeight(image, Yskew)
        /\ \A pt \in RectanglePoints(image) :
              /\ QLe(QInt(0), mult_3matrix(Trans, pt)[1])
              /\ QLe(mult_3matrix(Trans, pt)[1], BBoxWidth(image, Xskew))
              /\ QLe(QInt(0), mult_3matrix(Trans, pt)[2])
              /\ QLe(mult_3matrix(Trans, pt)[2], BBoxHeight(image, Yskew))

\* C22 witness: with Xskew = -30 on a 2 x 2 field the box starts at
\* lowX = -8/7, the translation is 8/7, the corner <<0, 2>> lands on x = 0
\* and the corner <<2, 0>> on x = 22/7, the width of the box.
C22_Witness ==
    /\ pc = "done" /\ Xskew = -30 /\ Yskew = 0
    /\ image.xres = 2 /\ image.yres = 2
    /\ At(Trans, 4) = <<8, 7>>
    /\ mult_3matrix(Trans, << QInt(0), QInt(2), QInt(1) >>)[1] = QInt(0)
    /\ mult_3matrix(Trans, << QInt(2), QInt(0), QInt(1) >>)[1] = <<22, 7>>

\* C23 as stated: the background fill skew_process computes,
\* min - 0.05*(max - min) over the original field, is strictly below every
\* sample of the original field, for every original field.
C23_FillBelowEverySample ==
    (pc = "done") =>
        \A k \in DOMAIN image.data : QLt(background_fill, image.data[k])

\* C23 as amended: the background fill is min - 0.05*(max - min); it is
\* never above a sample, it is strictly below every sample when the field
\* is not constant, and it is the sample value itself when the field is
\* constant.
C23_FillBelowUnlessConstant ==
    (pc = "done") =>
        /\ background_fill =
              QSub(FieldMin(image),
                   QDiv(QSub(FieldMax(image), FieldMin(image)), QInt(20)))
        /\ \A k \in DOMAIN image.data : QLe(background_fill, image.data[k])
        /\ QLt(FieldMin(image), FieldMax(image))
              => \A k \in DOMAIN image.data :
                    QLt(background_fill, image.data[k])
        /\ FieldMin(image) = FieldMax(image)
              => \A k \in DOMAIN image.data : background_fill = image.data[k]

\* C23 witness: the 2 x 2 ramp 0..3 has the fill -3/20, below its least
\* sample 0.
C23_Witness ==
    /\ pc = "done"
    /\ image.xres = 2 /\ image.yres = 2
    /\ image.data[0] = QInt(0) /\ image.data[3] = QInt(3)
    /\ background_fill = <<-3, 20>>

----------------------------------------------------------------------------
(* Claims about the round trip (SpecRoundTrip).                            *)

\* C13 as stated: applying the skew with <<tx, ty>> and then, to the
\* result, with <<-tx, -ty>> gives a canvas whose resolution is that of the
\* original up to one pixel on each axis.
C13_RoundTripRestores ==
    (pc = "restored") =>
        /\ Abs(newxres - origres[1]) <= 1
        /\ Abs(newyres - origres[2]) <= 1

\* C13 as amended: the second application does not undo the first.  Its
\* canvas is GWY_ROUND(W' + |tan(Xskew)|*H') by GWY_ROUND(H' + |tan(Yskew)|*W'),
\* W' x H' being the canvas of the first; it is never smaller than W' x H',
\* which is never smaller than the original W x H.
C13_RoundTripGrows ==
    (pc = "restored") =>
        /\ newxres = GWY_ROUND(QAdd(QInt(image.xres),
                                    QMul(TanDeg(Abs(Xskew)), QInt(image.yres))))
        /\ newyres = GWY_ROUND(QAdd(QInt(image.yres),
                                    QMul(TanDeg(Abs(Yskew)), QInt(image.xres))))
        /\ newxres >= image.xres /\ image.xres >= origres[1]
        /\ newyres >= image.yres /\ image.yres >= origres[2]

C13_Witness ==
    /\ pc = "restored" /\ Xskew = -30 /\ Yskew = 0
    /\ origres = <<2, 2>>
    /\ image.xres = 3 /\ image.yres = 2
    /\ newxres = 4 /\ newyres = 2

----------------------------------------------------------------------------
(* Claims about affine (SpecAffine).                                       *)

\* The mapped source coordinate of destination pixel k lies in [0,W) x [0,H).
InsideHalfOpen(k) ==
    /\ QLe(QInt(0), out.px[k].x) /\ QLt(out.px[k].x, QInt(image.xres))
    /\ QLe(QInt(0), out.px[k].y) /\ QLt(out.px[k].y, QInt(image.yres))

\* C7 as stated: every destination pixel whose mapped source coordinate is
\* not inside [0,W) x [0,H), x = W and y = H included, holds exactly
\* fill_value, for every kernel.
C7_FillOutsideHalfOpen ==
    (pc = "done") =>
        \A k \in DOMAIN out.px :
            ~InsideHalfOpen(k) => corr_image.data[k] = background_fill

\* The map is the identity shifted by exactly W in x.
ShiftedByW ==
    iTrans = << QInt(1), QInt(0), QInt(0), QInt(1), QInt(image.xres), QInt(0) >>

\* C8 as stated: resampling with the identity shifted by exactly W in x
\* reproduces the original field in the destination.
C8_ShiftByWReproduces ==
    (pc = "done" /\ ShiftedByW) => corr_image = image

\* C8 as amended: with the identity shifted by exactly W in x the field is
\* not wrapped around: every destination pixel in columns 1 and up (mapped
\* x > W) holds fill_value, and column 0 (mapped x = W exactly) holds the
\* source's last column W-1, reached by the mirror fold of index W.
C8_ShiftByWFills ==
    (pc = "done" /\ ShiftedByW) =>
        \A k \in DOMAIN out.px :
            LET col == k % image.xres
                row == k \div image.xres
            IN  IF col >= 1
                THEN out.px[k].filled /\ corr_image.data[k] = background_fill
                ELSE /\ ~out.px[k].filled
                     /\ corr_image.data[k] =
                            image.data[row * image.xres + (image.xres - 1)]

C8_Witness ==
    /\ pc = "done" /\ ShiftedByW
    /\ image.xres = 2 /\ image.yres = 2 /\ image.data[3] = QInt(3)
    /\ corr_image.data[2] = QInt(3)
    /\ corr_image.data[3] = background_fill
    /\ corr_image # image

\* The index the claim gives for the unfolded index k on an axis of
\* resolution R: k mod 2R, mirrored to 2R-1-(k mod 2R) when it is >= R.
MirrorPeriodic(k, R) ==
    LET m == k % (2 * R)
    IN  IF m >= R THEN 2 * R - 1 - m ELSE m

AllReads == UNION { out.px[k].reads : k \in DOMAIN out.px }

\* C9: every row and column index affine reads when it gathers the
\* neighbourhood is the mirror-periodic fold of the unfolded index, lies in
\* [0,R), and is not an edge clamp imposed on top of the fold: k = -1 reads
\* index 0 and k = R reads index R-1.
C9_ReadsAreFolded ==
    (pc = "done") =>
        \A r \in AllReads :
            /\ r.idx = MirrorPeriodic(r.k, r.res)
            /\ r.idx \in 0..(r.res - 1)
            /\ (r.k = -1) => r.idx = 0
            /\ (r.k = r.res) => r.idx = r.res - 1

C9_Witness ==
    /\ pc = "done"
    /\ \E r \in AllReads : r.k = -1 /\ r.idx = 0
    /\ \E r \in AllReads : r.k = r.res + 1 /\ r.res = 2 /\ r.idx = 0

\* C10 as stated: for x = a*i + c*j + tx, y = b*i + d*j + ty the half-pixel
\* correction added to tx is 0.5*(a+c-1) and the one added to ty is
\* 0.5*(b+d-1), a = invtrans[0], c = invtrans[2], b = invtrans[1],
\* d = invtrans[3] being the coefficients affine multiplies i and j with.
C10_HalfPixelCorrection ==
    (pc = "done") =>
        /\ out.bx = QAdd(At(iTrans, 4),
                         QMul(QHalf, QSub(QAdd(At(iTrans, 0), At(iTrans, 2)), QInt(1))))
        /\ out.by = QAdd(At(iTrans, 5),
                         QMul(QHalf, QSub(QAdd(At(iTrans, 1), At(iTrans, 3)), QInt(1))))
        /\ \A k \in DOMAIN out.px :
              LET i == k % destres[1]
                  j == k \div destres[1]
              IN  /\ out.px[k].x = QAdd(QAdd(QMul(At(iTrans, 0), QInt(i)),
                                             QMul(At(iTrans, 2), QInt(j))), out.bx)
                  /\ out.px[k].y = QAdd(QAdd(QMul(At(iTrans, 1), QInt(i)),
                                             QMul(At(iTrans, 3), QInt(j))), out.by)

----------------------------------------------------------------------------
(* peak_find, the cell renderer of the point list, and the angles of the   *)
(* four peaks.  The field on display has one pixel per unit of length and  *)
(* no offset: gwy_data_field_rtoj is the truncation of a coordinate to a   *)
(* gint, gwy_data_field_jtor the pixel index as a coordinate.  A point is  *)
(* <<x, y>>, a stored peak <<x, y, z>>.                                    *)

gwy_data_field_rtoj(x) == QFloor(x)

gwy_data_field_jtor(i) == QInt(i)

gwy_data_field_get_val(f, col, row) == f.data[row * f.xres + col]

\* low = c - r; if (low < 0) low = 0;
WindowLow(c, r) == IF c - r < 0 THEN 0 ELSE c - r

\* high = c + r; if (high > res) high = res;
WindowHigh(c, r, res) == IF c + r > res THEN res ELSE c + r

\* The body of the two loops of peak_find at column i, row j: best is
\* <<temp_i, temp_j, temp_z>>.
PeakStep(f, i, j, best) ==
    IF QLt(best[3], gwy_data_field_get_val(f, i, j))
    THEN <<i, j, gwy_data_field_get_val(f, i, j)>>
    ELSE best

\* for (i = low_i; i < high_i; i++) for (j = low_j; j < high_j; j++): the
\* n-th pass of the inner body, count passes in all, nj of them per column.
RECURSIVE PeakScan(_, _, _, _, _, _, _)
PeakScan(f, low_i, low_j, nj, n, count, best) ==
    IF n >= count THEN best
    ELSE PeakScan(f, low_i, low_j, nj, n + 1, count,
                  PeakStep(f, low_i + (n \div nj), low_j + (n % nj), best))

PeakWindow(f, col, row, low_i, high_i, low_j, high_j) ==
    PeakScan(f, low_i, low_j, high_j - low_j, 0,
             (high_i - low_i) * (high_j - low_j),
             <<col, row, gwy_data_field_get_val(f, col, row)>>)

\* <<temp_i, temp_j, temp_z>> of peak_find on the field f for the pixel
\* <<col, row>> and the radius r.
PeakOf(f, col, row, r) ==
    PeakWindow(f, col, row, WindowLow(col, r), WindowHigh(col, r, f.xres),
               WindowLow(row, r), WindowHigh(row, r, f.yres))

\* The peak peak_find stores in controls->p[idx].
PeakStored(best) ==
    << gwy_data_field_jtor(best[1]), gwy_data_field_jtor(best[2]), best[3] >>

\* The selection peak_find leaves: object idx (sequence index idx + 1) is
\* moved to the pixel found when that is not the pixel <<col, row>>.
PeakSelection(sel, idx, col, row, best) ==
    IF row - best[2] # 0 \/ col - best[1] # 0
    THEN [sel EXCEPT ![idx + 1] = << gwy_data_field_jtor(best[1]),
                                      gwy_data_field_jtor(best[2]) >>]
    ELSE sel

\* sqrt(x*x + y*y), held as its square.
Norm2(x, y) == QAdd(QMul(x, x), QMul(y, y))

Dot(ax, ay, bx, by) == QAdd(QMul(ax, bx), QMul(ay, by))

\* acos(ab/(a*b)) for a = sqrt(a2), b = sqrt(b2): the angle is held as the
\* sign of its cosine and the square of its cosine.  0/0 is NaN and acos of
\* NaN is NaN.
AcosQuotient(ab, a2, b2) ==
    IF a2[1] = 0 \/ b2[1] = 0
    THEN [nan |-> TRUE, sgn |-> 0, cos2 |-> QNaN]
    ELSE [nan |-> FALSE,
          sgn |-> IF ab[1] > 0 THEN 1 ELSE IF ab[1] < 0 THEN -1 ELSE 0,
          cos2 |-> QDiv(QMul(ab, ab), QMul(a2, b2))]

\* acos(c)*180/PI is 90 exactly when the cosine c is 0.
IsRightAngle(angle) == ~angle.nan /\ angle.sgn = 0

\* get_angles without the second a = sqrt(ax*ax + ay*ay).
get_angles_stale_a(pp) ==
    [ angle1 |-> AcosQuotient(
          Dot(QSub(pp[0][1], pp[1][1]), QSub(pp[0][2], pp[1][2]),
              QSub(pp[2][1], pp[1][1]), QSub(pp[2][2], pp[1][2])),
          Norm2(QSub(pp[0][1], pp[1][1]), QSub(pp[0][2], pp[1][2])),
          Norm2(QSub(pp[2][1], pp[1][1]), QSub(pp[2][2], pp[1][2]))),
      angle2 |-> AcosQuotient(
          Dot(QSub(pp[3][1], pp[2][1]), QSub(pp[3][2], pp[2][2]),
              QSub(pp[1][1], pp[2][1]), QSub(pp[1][2], pp[2][2])),
          Norm2(QSub(pp[0][1], pp[1][1]), QSub(pp[0][2], pp[1][2])),
          Norm2(QSub(pp[2][1], pp[1][1]), QSub(pp[2][2], pp[1][2]))) ]

\* get_angles on the peaks pp = controls->p: angle1 from ax, ay = p1 - p2
\* and bx, by = p3 - p2; angle2 from ax, ay = p4 - p3 and bx, by = p2 - p3,
\* with a computed anew and b left as it was.
get_angles(pp) ==
    [ angle1 |-> AcosQuotient(
          Dot(QSub(pp[0][1], pp[1][1]), QSub(pp[0][2], pp[1][2]),
              QSub(pp[2][1], pp[1][1]), QSub(pp[2][2], pp[1][2])),
          Norm2(QSub(pp[0][1], pp[1][1]), QSub(pp[0][2], pp[1][2])),
          Norm2(QSub(pp[2][1], pp[1][1]), QSub(pp[2][2], pp[1][2]))),
      angle2 |-> AcosQuotient(
          Dot(QSub(pp[3][1], pp[2][1]), QSub(pp[3][2], pp[2][2]),
              QSub(pp[1][1], pp[2][1]), QSub(pp[1][2], pp[2][2])),
          Norm2(QSub(pp[3][1], pp[2][1]), QSub(pp[3][2], pp[2][2])),
          Norm2(QSub(pp[2][1], pp[1][1]), QSub(pp[2][2], pp[1][2]))) ]

\* What a label shows after its title: text is "" when the markup is the
\* title alone, and otherwise what "%0.1f" prints for the angle, which for
\* a NaN is the text "nan"; angle is the number printed.
TitleOnly == [text |-> "", angle |-> NoAngle]

FormatAngle(angle) ==
    [text |-> IF angle.nan THEN "nan" ELSE "%0.1f", angle |-> angle]

\* gwy_selection_is_full: the selection holds its maximum of 4 objects.
MaxObjects == 4

gwy_selection_is_full(sel) == Len(sel) = MaxObjects

\* The angles as get_angles found them become the state, with the labels.
StoreAngles(a) ==
    /\ angle1' = a.angle1
    /\ angle2' = a.angle2
    /\ Angle1' = FormatAngle(a.angle1)
    /\ Angle2' = FormatAngle(a.angle2)

\* skew_update_angles when the selection is sel and the peaks are pp.
skew_update_angles(sel, pp) ==
    IF gwy_selection_is_full(sel)
    THEN StoreAngles(get_angles(pp))
    ELSE Angle1' = TitleOnly /\ Angle2' = TitleOnly
         /\ UNCHANGED <<angle1, angle2>>

\* peak_find(controls, point, idx) once <<temp_i, temp_j, temp_z>> = best is
\* known for the pixel <<col, row>> of the point.
peak_findOf(idx, col, row, best) ==
    /\ p' = [p EXCEPT ![idx] = PeakStored(best)]
    /\ selection' = PeakSelection(selection, idx, col, row, best)

peak_findAt(idx, col, row) ==
    peak_findOf(idx, col, row, PeakOf(disp_data, col, row, rpx))

peak_find(point, idx) ==
    peak_findAt(idx, gwy_data_field_rtoj(point[1]),
                gwy_data_field_rtoj(point[2]))

----------------------------------------------------------------------------
(* SpecPeaks: the point list of the dialog on a spectrum whose samples are *)
(* given.  The display is in the mode IMAGE_FFT_CORRECTED at ZOOM_1 with   *)
(* both skews 0, so disp_data is the spectrum corr_fft.  A modulus         *)
(* spectrum of a real field is symmetric about its centre.  The samples of *)
(* the original field are not modelled here: its data is empty.            *)

\* The pixel opposite pixel i about the centre res/2 of an axis.
Opposite(i, res) == (2 * (res \div 2) - i) % res

\* The sample at <<i, j>> of the spectrum with the peaks spots, a set of
\* <<column, row, height>>, each with its opposite, on a zero background.
SpotAt(spots, i, j, res) ==
    IF \E s \in spots : \/ s[1] = i /\ s[2] = j
                        \/ s[1] = Opposite(i, res) /\ s[2] = Opposite(j, res)
    THEN QInt((CHOOSE s \in spots :
                  \/ s[1] = i /\ s[2] = j
                  \/ s[1] = Opposite(i, res) /\ s[2] = Opposite(j, res))[3])
    ELSE QInt(0)

SpotField(spots, res) ==
    Field(res, res, [k \in 0..(res * res - 1) |->
                        SpotAt(spots, k % res, k \div res, res)])

\* A lattice of four equal peaks; and two pairs of equal peaks, one of them
\* next to the centre column.
LatticeSpots == { <<1, 1, 2>>, <<3, 1, 2>> }

PairSpots == { <<3, 1, 2>>, <<2, 1, 2>> }

PeakFields == { SpotField(LatticeSpots, PeakRes), SpotField(PairSpots, PeakRes) }

\* Where the user clicks: the centres of these pixels.
ClickPixels == { <<1, 1>>, <<2, 2>>, <<1, 3>>, <<3, 1>>, <<3, 3>> }

PixelCentre(px) == << Q(2 * px[1] + 1, 2), Q(2 * px[2] + 1, 2) >>

Clicks == { PixelCentre(px) : px \in ClickPixels }

\* Radii of the spin button (0..10, 3 at the start) the model sets.
Radii == {1}

\* Values an element of controls->p holds before peak_find first writes it:
\* controls is an automatic variable that is not initialised.
UninitPoints == { NoPoint, << QInt(7), QInt(-3), QInt(1) >> }

InitPeaks ==
    /\ pc = "peaks"
    /\ image = Field(PeakRes, PeakRes, <<>>)
    /\ corr_image = image
    /\ Xskew = 0 /\ Yskew = 0
    /\ Trans = Identity /\ iTrans = Identity
    /\ interp = "BILINEAR" /\ destres = <<image.xres, image.yres>>
    /\ Idle
    /\ IdleOut(image)
    /\ disp_data \in PeakFields
    /\ dfield = disp_data /\ corr_fft = disp_data
    /\ image_mode = "FFT_CORRECTED" /\ zoom_mode = 1
    /\ selection = <<>>
    /\ \E g \in UninitPoints : p = [k \in 0..3 |-> g]
    /\ rpx = 3
    /\ angle1 = NoAngle /\ angle2 = NoAngle
    /\ Angle1 = TitleOnly /\ Angle2 = TitleOnly

PeaksFrame == <<pc, Xskew, Yskew, adjX, adjY, hskewtxt, vskewtxt, CanvasVars,
                image_mode, zoom_mode, OutVars>>

\* The point layer adds the point the user clicks, unless the selection is
\* full or holds that point; "changed" marks the four rows for rendering.
select_point(pt) ==
    /\ pc = "peaks"
    /\ image_mode = "FFT_CORRECTED"
    /\ ~gwy_selection_is_full(selection)
    /\ \A k \in 1..Len(selection) : selection[k] # pt
    /\ selection' = Append(selection, pt)
    /\ UNCHANGED <<p, rpx, angle1, angle2, Angle1, Angle2, FieldVars,
                   PeaksFrame>>

\* gwy_tool_level3_render_cell for the column id of row idx, id one of
\* COLUMN_X, COLUMN_Y, COLUMN_Z.  The text of the cell is not modelled, and
\* without it COLUMN_Z does what COLUMN_Y does; COLUMN_I returns at once.
gwy_tool_level3_render_cell(id, idx) ==
    /\ pc = "peaks"
    /\ idx < Len(selection)
    /\ IF id = "X" /\ image_mode = "FFT_CORRECTED"
       THEN peak_find(selection[idx + 1], idx)
       ELSE UNCHANGED <<p, selection>>
    /\ skew_update_angles(selection', p')
    /\ UNCHANGED <<rpx, FieldVars, PeaksFrame>>

\* gwy_tool_level3_radius_changed
gwy_tool_level3_radius_changed(r) ==
    /\ pc = "peaks"
    /\ rpx' = r
    /\ UNCHANGED <<selection, p, angle1, angle2, Angle1, Angle2, FieldVars,
                   PeaksFrame>>

\* clear_points: gwy_selection_clear, skew_update_angles, preview.  The
\* model follows the point list up to its first clearing.
clear_points ==
    /\ pc = "peaks"
    /\ pc' = "cleared"
    /\ selection' = <<>>
    /\ skew_update_angles(<<>>, p)
    /\ StoreFields(preview(Fields, image_mode, zoom_mode))
    /\ UNCHANGED <<p, rpx, Xskew, Yskew, adjX, adjY, hskewtxt, vskewtxt,
                   CanvasVars, image_mode, zoom_mode, OutVars>>

NextPeaks ==
    \/ \E pt \in Clicks : select_point(pt)
    \/ \E id \in {"X", "Y"}, idx \in 0..3 : gwy_tool_level3_render_cell(id, idx)
    \/ \E r \in Radii : gwy_tool_level3_radius_changed(r)
    \/ clear_points

SpecPeaks == InitPeaks /\ [][NextPeaks]_vars

----------------------------------------------------------------------------
(* Claims about the peaks and their angles (SpecPeaks).                    *)

\* The pixel <<col, row>> peak_find takes for a point.
PixelOf(pt) == << gwy_data_field_rtoj(pt[1]), gwy_data_field_rtoj(pt[2]) >>

\* The pixels of f in columns [col-r, col+r] and rows [row-r, row+r].
SquareWindow(f, col, row, r) ==
    { px \in (0..(f.xres - 1)) \X (0..(f.yres - 1)) :
        /\ col - r <= px[1] /\ px[1] <= col + r
        /\ row - r <= px[2] /\ px[2] <= row + r }

\* The largest sample of f over the pixels W.
MaxOf(f, W) ==
    CHOOSE v \in { gwy_data_field_get_val(f, px[1], px[2]) : px \in W } :
        \A px \in W : QLe(gwy_data_field_get_val(f, px[1], px[2]), v)

\* C14 as stated: peak_find returns the maximum sample over the whole
\* square window of half-width rpx around the pixel of the point, columns
\* [col-r, col+r] and rows [row-r, row+r] clamped to the grid: whenever
\* the X cell of a row is rendered, the value stored for the row is the
\* largest sample of that window.
C14_PeakIsWindowMax ==
    [][\A idx \in 0..3 :
          (idx < Len(selection) /\ gwy_tool_level3_render_cell("X", idx))
          => p'[idx][3] =
                MaxOf(disp_data,
                      SquareWindow(disp_data, PixelOf(selection[idx + 1])[1],
                                   PixelOf(selection[idx + 1])[2], rpx))]_vars

\* The pixels the two loops of peak_find visit, with the pixel it starts
\* from.
ScannedWindow(f, col, row, r) ==
    { px \in (0..(f.xres - 1)) \X (0..(f.yres - 1)) :
        \/ px = <<col, row>>
        \/ /\ WindowLow(col, r) <= px[1] /\ px[1] < WindowHigh(col, r, f.xres)
           /\ WindowLow(row, r) <= px[2] /\ px[2] < WindowHigh(row, r, f.yres) }

\* The pixels of W that hold the largest sample of W.
Maxima(f, W) ==
    { px \in W : gwy_data_field_get_val(f, px[1], px[2]) = MaxOf(f, W) }

\* The first pixel of S in row-major order: lowest row, then lowest column.
RowMajorFirst(S) ==
    CHOOSE px \in S :
        \A q \in S : px[2] < q[2] \/ (px[2] = q[2] /\ px[1] <= q[1])

\* C15 as stated: when several pixels of the window peak_find searches
\* share the maximum, the pixel stored is the first of them in row-major
\* order (lowest row, then lowest column).
C15_TieIsRowMajorFirst ==
    [][\A idx \in 0..3 :
          (idx < Len(selection) /\ gwy_tool_level3_render_cell("X", idx))
          => << p'[idx][1], p'[idx][2] >> =
                << gwy_data_field_jtor(RowMajorFirst(Maxima(disp_data,
                       ScannedWindow(disp_data,
                           PixelOf(selection[idx + 1])[1],
                           PixelOf(selection[idx + 1])[2], rpx)))[1]),
                   gwy_data_field_jtor(RowMajorFirst(Maxima(disp_data,
                       ScannedWindow(disp_data,
                           PixelOf(selection[idx + 1])[1],
                           PixelOf(selection[idx + 1])[2], rpx)))[2]) >>]_vars

\* The angle between the vectors u - o and v - o of the peaks u, o, v.
AngleAt(u, o, v) ==
    AcosQuotient(Dot(QSub(u[1], o[1]), QSub(u[2], o[2]),
                     QSub(v[1], o[1]), QSub(v[2], o[2])),
                 Norm2(QSub(u[1], o[1]), QSub(u[2], o[2])),
                 Norm2(QSub(v[1], o[1]), QSub(v[2], o[2])))

\* u - o and v - o are perpendicular and neither is zero.
Perpendicular(u, o, v) ==
    /\ Dot(QSub(u[1], o[1]), QSub(u[2], o[2]),
           QSub(v[1], o[1]), QSub(v[2], o[2])) = QInt(0)
    /\ << u[1], u[2] >> # << o[1], o[2] >>
    /\ << v[1], v[2] >> # << o[1], o[2] >>

\* C16: whenever the labels show angles, angle123 is the angle at p2
\* between p1 - p2 and p3 - p2 and angle234 the angle at p3 between p4 - p3
\* and p2 - p3, each from the dot product and the lengths of exactly those
\* two vectors; when both pairs are perpendicular and non-zero both angles
\* are 90 degrees.
C16_AnglesOfThePeaks ==
    Angle1.text # ""
    => /\ angle1 = AngleAt(p[0], p[1], p[2])
       /\ angle2 = AngleAt(p[3], p[2], p[1])
       /\ Angle1.angle = angle1 /\ Angle2.angle = angle2
       /\ (Perpendicular(p[0], p[1], p[2]) /\ Perpendicular(p[3], p[2], p[1]))
          => (IsRightAngle(angle1) /\ IsRightAngle(angle2))

\* C16 witness: the four peaks of the lattice are selected as a square and
\* both labels show a right angle.
C16_Witness ==
    /\ gwy_selection_is_full(selection)
    /\ << p[0][1], p[0][2] >> = << QInt(1), QInt(3) >>
    /\ << p[1][1], p[1][2] >> = << QInt(1), QInt(1) >>
    /\ << p[2][1], p[2][2] >> = << QInt(3), QInt(1) >>
    /\ << p[3][1], p[3][2] >> = << QInt(3), QInt(3) >>
    /\ Angle1.text = "%0.1f" /\ Angle2.text = "%0.1f"
    /\ IsRightAngle(angle1) /\ IsRightAngle(angle2)

\* Two of the three peaks u, o, v that define the angle at o coincide with
\* o: one of the two vectors has length zero.
ZeroVector(u, o, v) ==
    \/ << u[1], u[2] >> = << o[1], o[2] >>
    \/ << v[1], v[2] >> = << o[1], o[2] >>

\* Every selected point has been refined: its row holds the pixel of the
\* point.
AllRefined ==
    \A k \in 0..(Len(selection) - 1) :
        << p[k][1], p[k][2] >> =
            << gwy_data_field_jtor(PixelOf(selection[k + 1])[1]),
               gwy_data_field_jtor(PixelOf(selection[k + 1])[2]) >>

\* C17 as stated: when two of the three points that define an angle
\* coincide, nothing is displayed for the angle: once the four selected
\* points are refined, the label of such an angle shows no value after its
\* title.
C17_NothingShownForCoincidentPoints ==
    (gwy_selection_is_full(selection) /\ AllRefined)
    => /\ ZeroVector(p[0], p[1], p[2]) => Angle1.text = ""
       /\ ZeroVector(p[3], p[2], p[1]) => Angle2.text = ""

\* C18 as stated: in every reachable state in which four peaks are
\* selected, the four stored peak positions, after refinement by
\* peak_find, are four pairwise distinct pixels.
C18_PeaksPairwiseDistinct ==
    (gwy_selection_is_full(selection) /\ AllRefined)
    => \A a \in 0..3 : \A b \in 0..3 :
          a # b => << p[a][1], p[a][2] >> # << p[b][1], p[b][2] >>

----------------------------------------------------------------------------
(* Spec: the dialog.  Init is the state skew_lattice_dialog has built when *)
(* it enters gtk_dialog_run: default arguments, both adjustments at 0,     *)
(* both entries "0.0", and skew_process run once.  Each action is one      *)
(* callback, with the callbacks it triggers through its signals.           *)

\* gtk_adjustment_new(0, -30, 30, 1, 1, 0): the range of both adjustments.
AdjLower == -30

AdjUpper == 30

\* CLAMP(value, lower, upper) of gtk_adjustment_set_value.
ClampAdj(v) == IF v < AdjLower THEN AdjLower ELSE IF v > AdjUpper THEN AdjUpper ELSE v

\* Positions the user can drag a slider to, and numbers the user can type
\* into a skew entry.
SliderVals == {0, 15, 30}

TextInputs == {15, 75}

DialogImages ==
    { Field(MaxRes, MaxRes, [k \in 0..(MaxRes * MaxRes - 1) |-> SampleAt("ramp", k)]),
      Field(1, MaxRes, [k \in 0..(MaxRes - 1) |-> SampleAt("ramp", k)]) }

ImageModes == {"DATA", "FFT", "CORRECTED", "FFT_CORRECTED"}

\* ZOOM_1 and ZOOM_2.
ZoomModes == {1, 2}

\* The fields skew_lattice_dialog creates from the field img it is given.
InitFields(img) ==
    [ image |-> img, dfield |-> perform_fft(img), corr_image |-> img,
      corr_fft |-> perform_fft(img),
      disp_data |-> FilledField(img.xres, img.yres, QInt(0)) ]

\* The state skew_process(controls) and preview(controls) of lines 573 and
\* 574 leave, r being the result of skew_process and fs the fields.
InitProcessed(r, fs) ==
    /\ background_fill = r.background_fill
    /\ newxres = r.newxres
    /\ newyres = r.newyres
    /\ Trans = r.Trans
    /\ iTrans = r.iTrans
    /\ interp = "BILINEAR"
    /\ destres = <<r.newxres, r.newyres>>
    /\ out = r.out
    /\ fault = "none"
    /\ image = fs.image
    /\ dfield = fs.dfield
    /\ corr_image = fs.corr_image
    /\ corr_fft = fs.corr_fft
    /\ disp_data = fs.disp_data

InitDialog(img, r) ==
    /\ InitProcessed(r, preview(ProcessedFields(InitFields(img), r),
                                "FFT_CORRECTED", 1))
    /\ IdleOut(img)

Init ==
    /\ pc = "dialog"
    /\ Xskew = 0 /\ Yskew = 0
    /\ adjX = 0 /\ adjY = 0
    /\ hskewtxt = 0 /\ vskewtxt = 0
    /\ image_mode = "FFT_CORRECTED" /\ zoom_mode = 1
    /\ IdlePeaks
    /\ \E img \in DialogImages : InitDialog(img, ProcessResult(img, 0, 0))

Running == pc = "dialog" /\ fault # "crash"

\* skew_process(controls); reFind_Peaks(controls): r is what skew_process
\* computed.  No point is selected in this specification, so the loop of
\* reFind_Peaks has nothing to refine and goes on to preview.
ProcessThenPreview(r) ==
    /\ StoreCanvas(r)
    /\ StoreFields(preview(ProcessedFields(Fields, r), image_mode, zoom_mode))

\* skew_Xadjusted, the "value-changed" handler of skew_Xadjust, with the
\* adjustment now at v: the angle is stored, skew_process and reFind_Peaks
\* run, and the entry shows the value.
skew_Xadjusted(v) ==
    /\ adjX' = v
    /\ Xskew' = v
    /\ ProcessThenPreview(ProcessResult(image, v, Yskew))
    /\ hskewtxt' = v

skew_Yadjusted(v) ==
    /\ adjY' = v
    /\ Yskew' = v
    /\ ProcessThenPreview(ProcessResult(image, Xskew, v))
    /\ vskewtxt' = v

\* What no handler of the skew controls changes.
SkewFrame == <<pc, image_mode, zoom_mode, PeakVars, OutVars>>

\* The user drags the horizontal slider to another position.
MoveXSlider ==
    /\ Running
    /\ \E v \in SliderVals : v # adjX /\ skew_Xadjusted(v)
    /\ UNCHANGED <<Yskew, adjY, vskewtxt, SkewFrame>>

MoveYSlider ==
    /\ Running
    /\ \E v \in SliderVals : v # adjY /\ skew_Yadjusted(v)
    /\ UNCHANGED <<Xskew, adjX, hskewtxt, SkewFrame>>

\* reset_Xskew: gtk_adjustment_set_value(skew_Xadjust, 0.0), which signals
\* "value-changed" only when the value changes.
reset_Xskew ==
    /\ Running
    /\ IF adjX # 0 THEN skew_Xadjusted(0)
       ELSE UNCHANGED <<adjX, Xskew, hskewtxt, ProcessVars>>
    /\ UNCHANGED <<Yskew, adjY, vskewtxt, SkewFrame>>

reset_Yskew ==
    /\ Running
    /\ IF adjY # 0 THEN skew_Yadjusted(0)
       ELSE UNCHANGED <<adjY, Yskew, vskewtxt, ProcessVars>>
    /\ UNCHANGED <<Xskew, adjX, hskewtxt, SkewFrame>>

\* hskew_changed: the entry is activated holding the number num (typed by
\* the user, or the text it already had).  A number that differs from the
\* stored angle is stored as it is and handed to gtk_adjustment_set_value,
\* which clamps it and calls skew_Xadjusted only if the adjustment moves.
hskew_changed ==
    /\ Running
    /\ \E num \in TextInputs \cup {hskewtxt} :
          IF num # Xskew
          THEN IF ClampAdj(num) # adjX
               THEN skew_Xadjusted(ClampAdj(num))
               ELSE /\ Xskew' = num
                    /\ hskewtxt' = num
                    /\ UNCHANGED <<adjX, ProcessVars>>
          ELSE /\ hskewtxt' = Xskew
               /\ UNCHANGED <<adjX, Xskew, ProcessVars>>
    /\ UNCHANGED <<Yskew, adjY, vskewtxt, SkewFrame>>

vskew_changed ==
    /\ Running
    /\ \E num \in TextInputs \cup {vskewtxt} :
          IF num # Yskew
          THEN IF ClampAdj(num) # adjY
               THEN skew_Yadjusted(ClampAdj(num))
               ELSE /\ Yskew' = num
                    /\ vskewtxt' = num
                    /\ UNCHANGED <<adjY, ProcessVars>>
          ELSE /\ vskewtxt' = Yskew
               /\ UNCHANGED <<adjY, Yskew, ProcessVars>>
    /\ UNCHANGED <<Xskew, adjX, hskewtxt, SkewFrame>>

\* What the handlers of the display controls and skew_do leave alone.
AngleVars == <<Xskew, Yskew, adjX, adjY, hskewtxt, vskewtxt>>

\* image_mode_changed: another display mode is chosen and preview runs.
image_mode_changed ==
    /\ Running
    /\ \E m \in ImageModes :
          /\ m # image_mode
          /\ image_mode' = m
          /\ StoreFields(preview(Fields, m, zoom_mode))
    /\ UNCHANGED <<pc, AngleVars, CanvasVars, zoom_mode, PeakVars, OutVars>>

\* zoom_mode_changed: another zoom is chosen, preview runs, and
\* zoom_adjust_peaks ends in reFind_Peaks, which runs preview once more.
zoom_mode_changed ==
    /\ Running
    /\ \E z \in ZoomModes :
          /\ z # zoom_mode
          /\ zoom_mode' = z
          /\ StoreFields(preview(preview(Fields, image_mode, z), image_mode, z))
    /\ UNCHANGED <<pc, AngleVars, CanvasVars, image_mode, PeakVars, OutVars>>

\* skew_do without its call of skew_process: the field on hand is handed
\* over as it is.
skew_do_noprocess ==
    /\ Running
    /\ pc' = "accepted"
    /\ output' = corr_image
    /\ meta' = <<Xskew, Yskew>>
    /\ UNCHANGED <<AngleVars, CanvasVars, FieldVars, image_mode, zoom_mode,
                   PeakVars, origres, hostfield>>

\* skew_do with skew_process reading the field on hand, controls->corr_image,
\* in place of the original field.
skew_do_reshear ==
    /\ Running
    /\ StoreProcess(ProcessResult(corr_image, Xskew, Yskew))
    /\ IF fault' = "crash"
       THEN pc' = "crashed" /\ UNCHANGED <<output, meta>>
       ELSE /\ pc' = "accepted"
            /\ output' = corr_image'
            /\ meta' = <<Xskew, Yskew>>
    /\ UNCHANGED <<AngleVars, image, dfield, disp_data, image_mode, zoom_mode,
                   PeakVars, origres, hostfield>>

\* skew_do with a preview between skew_process and skew_create_output, as
\* the handlers of the skew controls have it.
skew_do_previewed ==
    /\ Running
    /\ ProcessThenPreview(ProcessResult(image, Xskew, Yskew))
    /\ IF fault' = "crash"
       THEN pc' = "crashed" /\ UNCHANGED <<output, meta>>
       ELSE /\ pc' = "accepted"
            /\ output' = corr_image'
            /\ meta' = <<Xskew, Yskew>>
    /\ UNCHANGED <<AngleVars, image_mode, zoom_mode, PeakVars, origres,
                   hostfield>>

\* The dialog ends with GTK_RESPONSE_OK: skew_do runs skew_process with the
\* stored angles and skew_create_output hands corr_image to the host with
\* the "X Skew" and "Y Skew" metadata.
skew_do ==
    /\ Running
    /\ skew_process(Xskew, Yskew)
    /\ IF fault' = "crash"
       THEN pc' = "crashed" /\ UNCHANGED <<output, meta>>
       ELSE /\ pc' = "accepted"
            /\ output' = corr_image'
            /\ meta' = <<Xskew, Yskew>>
    /\ UNCHANGED <<AngleVars, image, dfield, disp_data, image_mode, zoom_mode,
                   PeakVars, origres, hostfield>>

\* The response loop with the cancel branch falling through to skew_do:
\* the field on hand is handed to the host all the same.
dialog_cancel_output ==
    /\ Running
    /\ pc' = "cancelled"
    /\ output' = corr_image
    /\ meta' = <<Xskew, Yskew>>
    /\ UNCHANGED <<AngleVars, CanvasVars, FieldVars, image_mode, zoom_mode,
                   PeakVars, origres, hostfield>>

\* The dialog ends with GTK_RESPONSE_CANCEL or GTK_RESPONSE_DELETE_EVENT:
\* it is destroyed and skew_lattice_dialog returns; skew_lattice then
\* signals "data-changed" on the field of the host, which writes nothing.
dialog_cancel ==
    /\ Running
    /\ pc' = "cancelled"
    /\ UNCHANGED <<AngleVars, CanvasVars, FieldVars, image_mode, zoom_mode,
                   PeakVars, OutVars>>

Next ==
    \/ MoveXSlider
    \/ MoveYSlider
    \/ reset_Xskew
    \/ reset_Yskew
    \/ hskew_changed
    \/ vskew_changed
    \/ image_mode_changed
    \/ zoom_mode_changed
    \/ skew_do
    \/ dialog_cancel

Spec == Init /\ [][Next]_vars

\* C3 as stated: in every state reachable through slider moves, reset
\* clicks and activations of the skew entries, the stored args->Xskew and
\* args->Yskew lie within [-30, +30] degrees, and so do the angles whose
\* tangents skew_process last put into Trans.
C3_SkewWithinRange ==
    /\ Xskew \in AdjLower..AdjUpper
    /\ Yskew \in AdjLower..AdjUpper
    /\ \A k \in {1, 2} :
          /\ QLe(TanDeg(AdjLower), At(Trans, k))
          /\ QLe(At(Trans, k), TanDeg(AdjUpper))

\* C19: the original field controls->image (resolution and every sample)
\* is unchanged by every step of the dialog: changes of the skew angles,
\* of the display mode and of the zoom with the previews they run, and the
\* final skew_process of skew_do.
C19_ImageUnchanged == [][image' = image]_vars

\* C19 witness: the original field is the one on display (mode IMAGE_DATA),
\* zoomed, after the skew was changed: preview has resampled it in place to
\* the resolution of disp_data and extracted the centre from its copy.
C19_Witness ==
    /\ image_mode = "DATA" /\ zoom_mode = 2
    /\ Xskew = 30 /\ newxres > image.xres
    /\ image \in DialogImages
    /\ disp_data.xres = image.xres /\ disp_data # image

\* C20: when the dialog has been accepted, the field handed to the host is
\* the one skew_process makes of the original field with exactly the angles
\* written into the "X Skew" and "Y Skew" metadata, and these are the
\* stored angles.
C20_OutputMatchesMetadata ==
    pc = "accepted"
    => /\ meta = <<Xskew, Yskew>>
       /\ output = ProcessedImage(ProcessResult(image, meta[1], meta[2]))
       /\ At(Trans, 2) = TanDeg(meta[1]) /\ At(Trans, 1) = TanDeg(meta[2])

\* C20 witness: the dialog was accepted with the angles <<30, 15>> and the
\* field handed over has the canvas of these angles.
C20_Witness ==
    /\ pc = "accepted"
    /\ meta = <<30, 15>>
    /\ output.xres = newxres /\ output.yres = newyres
    /\ newxres > image.xres

\* C24 as stated: preview, in every display mode and for every skew, leaves
\* the stored corrected field and corrected spectrum unchanged in
\* resolution and samples: while the dialog runs, corr_image is the field
\* skew_process last made, of the resolution newxres x newyres, and
\* corr_fft is the spectrum of it.
C24_PreviewKeepsCorrected ==
    (pc = "dialog") =>
        /\ corr_image = Field(newxres, newyres, out.data)
        /\ corr_fft = perform_fft(Field(newxres, newyres, out.data))

\* The angles skew_process last ran with are the stored ones: Trans holds
\* their tangents.
ProcessedWithStoredAngles ==
    At(Trans, 2) = TanDeg(Xskew) /\ At(Trans, 1) = TanDeg(Yskew)

\* C26: when skew_process runs again with the angles it last ran with (the
\* run of skew_do after a slider move, whatever previews came in between),
\* and returns, it leaves the same newxres and newyres, the same background
\* fill, and a corrected field with the resolution and the samples the
\* first run made.
C26_SecondRunSameResult ==
    [][(pc = "dialog" /\ pc' = "accepted" /\ ProcessedWithStoredAngles)
          => /\ newxres' = newxres /\ newyres' = newyres
             /\ background_fill' = background_fill
             /\ Trans' = Trans /\ iTrans' = iTrans
             /\ out' = out /\ fault' = fault
             /\ corr_image' = ProcessedImage([iTrans |-> iTrans, out |-> out,
                                              newxres |-> newxres,
                                              newyres |-> newyres])]_vars

\* C26 witness: the dialog was accepted at the slider angle 30 with the
\* corrected field on display and zoomed, so previews ran between the two
\* runs of skew_process and the canvas is wider than the display.
C26_Witness ==
    /\ pc = "accepted"
    /\ Xskew = 30 /\ adjX = 30 /\ Yskew = 0 /\ adjY = 0
    /\ image_mode = "CORRECTED" /\ zoom_mode = 2
    /\ corr_image = Field(newxres, newyres, out.data)
    /\ newxres > disp_data.xres

\* C29: the host holds a field and metadata handed over by the module only
\* once the dialog has ended with OK; while the dialog runs and after it
\* ended with Cancel or was closed nothing has been handed over; and the
\* data field of the host is in every state the field the module was run
\* on, which the dialog copied into controls->image.
C29_HostChangedOnlyOnOK ==
    /\ (pc # "accepted") => (output = NoField /\ meta = NoMeta)
    /\ hostfield \in DialogImages
    /\ hostfield = image

\* C29 witness: the dialog was cancelled after the skew was set to 30 and
\* the original field put on display; the corrected field on hand differs
\* from the field of the host and nothing was handed over.
C29_Witness ==
    /\ pc = "cancelled"
    /\ Xskew = 30 /\ image_mode = "DATA"
    /\ newxres > hostfield.xres
    /\ output = NoField

\* skew_create_output: xreal = gwy_data_field_get_xreal(controls->image)
\* * (xres / oxres), for the physical size real of the original field.
OutputReal(real, xres, oxres) == QMul(real, Q(xres, oxres))

\* Physical sizes of the original field.
PhysicalSizes == { QInt(1), Q(7, 10), QInt(512) }

\* C30: whatever previews, display modes and zooms came before, the field
\* handed to the host on OK has the resolution newxres x newyres, which is
\* the canvas of the original field for the angles stored at that moment,
\* and the physical size skew_create_output gives it keeps the pixel pitch
\* of the original field on both axes.
C30_OutputHasCanvasOfStoredAngles ==
    (pc = "accepted") =>
        /\ output.xres = newxres /\ output.yres = newyres
        /\ newxres = CanvasXres(image, Xskew, Yskew)
        /\ newyres = CanvasYres(image, Xskew, Yskew)
        /\ DOMAIN output.data = 0..(newxres * newyres - 1)
        /\ \A real \in PhysicalSizes :
              /\ QDiv(OutputReal(real, output.xres, image.xres), QInt(output.xres))
                    = QDiv(real, QInt(image.xres))
              /\ QDiv(OutputReal(real, output.yres, image.yres), QInt(output.yres))
                    = QDiv(real, QInt(image.yres))

\* C30 witness: OK pressed with the corrected field on display and zoomed,
\* the stored X skew 75 typed into the entry while the slider, and the
\* canvas of the last preview, stood at 30: the field handed over has the
\* canvas of 75, wider than the display.
C30_Witness ==
    /\ pc = "accepted"
    /\ image_mode = "CORRECTED" /\ zoom_mode = 2
    /\ Xskew = 75 /\ adjX = 30 /\ Yskew = 0
    /\ output.xres = CanvasXres(image, 75, 0)
    /\ output.xres > disp_data.xres + 1

\* The sample v lies within the range of the samples of the field img.
WithinRange(v, img) ==
    IsFinite(v) /\ QLe(FieldMin(img), v) /\ QLe(v, FieldMax(img))

\* C28 as stated: after skew_process every sample of the corrected field is
\* the fill value or lies within [min, max] of the samples of the original
\* field; and when the original field is not constant, the samples equal
\* to the fill value are exactly those of the pixels whose source
\* coordinate failed the in-domain test of affine.
C28_SamplesFillOrInRange ==
    (pc = "done") =>
        /\ \A k \in 0..(newxres * newyres - 1) :
              \/ corr_image.data[k] = background_fill
              \/ WithinRange(corr_image.data[k], image)
        /\ FieldMin(image) # FieldMax(image)
              => \A k \in 0..(newxres * newyres - 1) :
                    (corr_image.data[k] = background_fill) <=> out.px[k].filled

\* The same for the runs of skew_process whose inverse matrix is finite.
C28_HoldsWhereInvertible ==
    (pc = "done" /\ MatFinite(iTrans)) => C28_SamplesFillOrInRange

----------------------------------------------------------------------------
(* SpecRefind: the skew sliders moved while points are selected on the     *)
(* spectrum on display (mode IMAGE_FFT_CORRECTED, ZOOM_1).  The samples of *)
(* the original field are not modelled, as in SpecPeaks; the spectrum of   *)
(* the field corrected with each pair of angles is given, at the           *)
(* resolution of the display.                                              *)

\* The angles the two sliders are moved to.
RefindVals == {0, 15}

\* The clicks of the user.
RefindClicks == { PixelCentre(px) : px \in { <<1, 1>>, <<2, 3>> } }

\* corr_fft as skew_process leaves it for the angles xs, ys: the peaks of
\* the lattice lie elsewhere once the field is sheared.
SkewSpectrum(xs, ys) ==
    IF xs = 0 /\ ys = 0 THEN SpotField(LatticeSpots, PeakRes)
    ELSE SpotField(PairSpots, PeakRes)

InitRefind ==
    /\ pc = "peaks"
    /\ image = Field(PeakRes, PeakRes, <<>>)
    /\ corr_image = image
    /\ Xskew = 0 /\ Yskew = 0
    /\ Trans = Identity /\ iTrans = Identity
    /\ interp = "BILINEAR" /\ destres = <<image.xres, image.yres>>
    /\ Idle
    /\ IdleOut(image)
    /\ dfield = SkewSpectrum(0, 0)
    /\ corr_fft = SkewSpectrum(0, 0)
    /\ disp_data = SkewSpectrum(0, 0)
    /\ image_mode = "FFT_CORRECTED" /\ zoom_mode = 1
    /\ selection = <<>>
    /\ p = [k \in 0..3 |-> NoPoint]
    /\ rpx = 3
    /\ angle1 = NoAngle /\ angle2 = NoAngle
    /\ Angle1 = TitleOnly /\ Angle2 = TitleOnly

\* The loop of reFind_Peaks from object i on: peak_find on the field f for
\* each object of the selection, which is then set to the peak stored.
RECURSIVE reFind_PeaksFrom(_, _, _, _)
reFind_PeaksFrom(f, sel, pp, i) ==
    IF i >= Len(sel) THEN [selection |-> sel, p |-> pp]
    ELSE LET found == PeakStored(PeakOf(f, gwy_data_field_rtoj(sel[i + 1][1]),
                                        gwy_data_field_rtoj(sel[i + 1][2]), rpx))
         IN  reFind_PeaksFrom(f, [sel EXCEPT ![i + 1] = << found[1], found[2] >>],
                              [pp EXCEPT ![i] = found], i + 1)

\* reFind_Peaks(controls) when the fields are fs: the loop reads
\* controls->disp_data, and preview runs after it.
reFind_PeaksStore(refined, fs) ==
    /\ selection' = refined.selection
    /\ p' = refined.p
    /\ StoreFields(preview(fs, image_mode, zoom_mode))

reFind_Peaks(fs) ==
    reFind_PeaksStore(reFind_PeaksFrom(fs.disp_data, selection, p, 0), fs)

\* skew_process for the angles xs, ys where the samples of the field are
\* not modelled: the canvas and the matrices, and the given spectrum.
skew_process_canvas(xs, ys) ==
    /\ newxres' = CanvasXres(image, xs, ys)
    /\ newyres' = CanvasYres(image, xs, ys)
    /\ Trans' = ForwardTrans(image, xs, ys)
    /\ iTrans' = invert_matrix(ForwardTrans(image, xs, ys))
    /\ destres' = << CanvasXres(image, xs, ys), CanvasYres(image, xs, ys) >>
    /\ UNCHANGED <<background_fill, interp, out, fault>>

\* skew_Xadjusted / skew_Yadjusted with points selected: the angle is
\* stored, skew_process runs, then reFind_Peaks.
skew_adjusted_refind(xs, ys) ==
    /\ pc = "peaks"
    /\ Xskew' = xs /\ adjX' = xs /\ hskewtxt' = xs
    /\ Yskew' = ys /\ adjY' = ys /\ vskewtxt' = ys
    /\ skew_process_canvas(xs, ys)
    /\ reFind_Peaks([Fields EXCEPT
                        !.corr_image = Field(CanvasXres(image, xs, ys),
                                             CanvasYres(image, xs, ys), <<>>),
                        !.corr_fft = SkewSpectrum(xs, ys)])
    /\ UNCHANGED <<pc, image_mode, zoom_mode, rpx, angle1, angle2, Angle1,
                   Angle2, OutVars>>

MoveXSliderRefind ==
    \E v \in RefindVals : v # adjX /\ skew_adjusted_refind(v, Yskew)

MoveYSliderRefind ==
    \E v \in RefindVals : v # adjY /\ skew_adjusted_refind(Xskew, v)

NextRefind ==
    \/ \E pt \in RefindClicks : select_point(pt)
    \/ MoveXSliderRefind
    \/ MoveYSliderRefind

SpecRefind == InitRefind /\ [][NextRefind]_vars

\* The peak searched for around the point pt on the field f.
RefinedOn(f, pt) ==
    PeakStored(PeakOf(f, gwy_data_field_rtoj(pt[1]),
                      gwy_data_field_rtoj(pt[2]), rpx))

\* C25 as stated: when a skew angle changes while points are selected, the
\* peak stored for each selected point by that change is the peak found
\* around the point on the spectrum of the field corrected with the new
\* angles, not on the display data of the previous angles.
C25_RefinesOnNewSpectrum ==
    [][(<<Xskew, Yskew>>' # <<Xskew, Yskew>>)
          => \A i \in 0..(Len(selection) - 1) :
                p'[i] = RefinedOn(corr_fft', selection[i + 1])]_vars

----------------------------------------------------------------------------
(* SpecFeedback: the point list on a spectrum whose pixels are not one     *)
(* unit wide.  peak_find writes gwy_data_field_jtor(temp_i) into the       *)
(* selection and the next rendering reads it back with                     *)
(* gwy_data_field_rtoj; both scale by xreal and xres in doubles.  For a    *)
(* field 0.7 wide and high, PeakRes pixels a side, the doubles of          *)
(* 3 * 0.7 / PeakRes * PeakRes / 0.7 come to 2.9999999999999996, which the *)
(* conversion to gint makes 2; the other indices come back as they were.   *)
(* Coordinates stay in pixel units: a whole number is what jtor gave for   *)
(* that index, a half-odd number the centre of a pixel the user clicked.   *)

\* The indices i for which (gint)rtoj(jtor(i)) is i - 1 on this field.
LossyPixels == {3}

\* (gint)gwy_data_field_rtoj(dfield, x) for the coordinate x of this field.
rtoj_doubles(x) ==
    IF x[2] = 1 /\ x[1] \in LossyPixels THEN x[1] - 1 ELSE QFloor(x)

FeedbackRadii == {1, 3}

FeedbackClicks == { PixelCentre(px) : px \in { <<1, 1>>, <<2, 2>>, <<3, 1>> } }

InitFeedback ==
    /\ pc = "peaks"
    /\ image = Field(PeakRes, PeakRes, <<>>)
    /\ corr_image = image
    /\ Xskew = 0 /\ Yskew = 0
    /\ Trans = Identity /\ iTrans = Identity
    /\ interp = "BILINEAR" /\ destres = <<image.xres, image.yres>>
    /\ Idle
    /\ IdleOut(image)
    /\ disp_data \in PeakFields
    /\ dfield = disp_data /\ corr_fft = disp_data
    /\ image_mode = "FFT_CORRECTED" /\ zoom_mode = 1
    /\ selection = <<>>
    /\ p = [k \in 0..3 |-> NoPoint]
    /\ rpx \in FeedbackRadii
    /\ angle1 = NoAngle /\ angle2 = NoAngle
    /\ Angle1 = TitleOnly /\ Angle2 = TitleOnly

\* gwy_tool_level3_render_cell for COLUMN_X of row idx on this field.
render_cell_doubles(idx) ==
    /\ pc = "peaks"
    /\ idx < Len(selection)
    /\ peak_findAt(idx, rtoj_doubles(selection[idx + 1][1]),
                   rtoj_doubles(selection[idx + 1][2]))
    /\ skew_update_angles(selection', p')
    /\ UNCHANGED <<rpx, FieldVars, PeaksFrame>>

NextFeedback ==
    \/ \E pt \in FeedbackClicks : select_point(pt)
    \/ \E idx \in 0..3 : render_cell_doubles(idx)

SpecFeedback == InitFeedback /\ [][NextFeedback]_vars

\* The pixel peak_find starts from for the stored point pt, and the pixel
\* it finds from the pixel px.
StartPixel(pt) == << rtoj_doubles(pt[1]), rtoj_doubles(pt[2]) >>

FoundPixel(px) ==
    << PeakOf(disp_data, px[1], px[2], rpx)[1],
       PeakOf(disp_data, px[1], px[2], rpx)[2] >>

\* The pixel peak_find starts from when it is given its own refined output
\* for the pixel px: the selection is rewritten only when the point moved.
Refed(px) ==
    IF FoundPixel(px) = px THEN px
    ELSE StartPixel(<< gwy_data_field_jtor(FoundPixel(px)[1]),
                       gwy_data_field_jtor(FoundPixel(px)[2]) >>)

\* The start pixel after at most n rounds of the loop from px.
RECURSIVE Settled(_, _)
Settled(px, n) ==
    IF n = 0 THEN px
    ELSE LET next == CHOOSE q \in {Refed(px)} : TRUE
         IN  IF next = px THEN px ELSE Settled(next, n - 1)

\* C27 as stated: from every selected point whose row has been rendered,
\* the loop of peak_find and the rewritten selection comes, within as many rounds as the field has
\* pixels, to a pixel that peak_find maps to itself, and whenever
\* peak_find moves the point, the sample at the pixel of the point it
\* stored is greater than the sample at the pixel it started from.
C27_FeedbackReachesFixedPoint ==
    \A k \in { i \in 1..Len(selection) : p[i - 1] # NoPoint } :
       /\ FoundPixel(Settled(StartPixel(selection[k]), PeakRes * PeakRes))
             = Settled(StartPixel(selection[k]), PeakRes * PeakRes)
       /\ FoundPixel(StartPixel(selection[k])) # StartPixel(selection[k])
             => QLt(gwy_data_field_get_val(disp_data,
                        StartPixel(selection[k])[1], StartPixel(selection[k])[2]),
                    gwy_data_field_get_val(disp_data,
                        Refed(StartPixel(selection[k]))[1],
                        Refed(StartPixel(selection[k]))[2]))

====
